---------------------------- MODULE Spec2Model ----------------------------
(***************************************************************************)
(* Two-tier documentation cache of the gorilla site application: the       *)
(* ephemeral tier (memcache) and the durable tier (datastore) as they are  *)
(* driven by getDoc, updatePackage, queryPackages, cacheGet, cacheSet,     *)
(* cacheSafeSet, cacheClear and packageReloadHandler.                      *)
(*                                                                         *)
(* Strings are sequences of one-character strings, optional values are     *)
(* sequences of length 0 or 1, byte blobs are sequences.                   *)
(***************************************************************************)
EXTENDS Integers, Sequences, FiniteSets, TLC

VARIABLES mc, dsDoc, dsPkg, faults, pr, rv, ff

vars == <<mc, dsDoc, dsPkg, faults, pr, rv, ff>>

(***************************************************************************)
(* Bounds of the model.                                                    *)
(***************************************************************************)
\* number of injected service failures (datastore or memcache RPC errors)
MaxFaults == 1

(***************************************************************************)
(* Program constants.                                                      *)
(***************************************************************************)
\* util.go:83  Expiration: 2 * time.Minute (in minutes)
TombstoneExpiration == 2
\* package.go:93, part_004:97  Expiration = time.Hour (in minutes)
HourExpiration == 60
\* package.go:189  buf.Len() > 800000
MaxDocSize == 800000

None == <<>>
Some(x) == <<x>>
Val(m) == m[1]

(***************************************************************************)
(* String helpers (packages strings, path and regexp).                     *)
(***************************************************************************)
Upper ==
  {"A", "B", "C", "D", "E", "F", "G", "H", "I", "J", "K", "L", "M",
   "N", "O", "P", "Q", "R", "S", "T", "U", "V", "W", "X", "Y", "Z"}
Lower ==
  {"a", "b", "c", "d", "e", "f", "g", "h", "i", "j", "k", "l", "m",
   "n", "o", "p", "q", "r", "s", "t", "u", "v", "w", "x", "y", "z"}
Digit == {"0", "1", "2", "3", "4", "5", "6", "7", "8", "9"}

\* the character class [a-z0-9A-Z_.\-] of the service patterns
WordChars == Lower \cup Upper \cup Digit \cup {"_", ".", "-"}
\* the character class [-A-Za-z0-9] of validHost
HostChars == Lower \cup Upper \cup Digit \cup {"-"}

LowerOf(c) ==
  IF c \notin Upper THEN c ELSE
  CASE c = "A" -> "a"
    [] c = "B" -> "b"
    [] c = "C" -> "c"
    [] c = "D" -> "d"
    [] c = "E" -> "e"
    [] c = "F" -> "f"
    [] c = "G" -> "g"
    [] c = "H" -> "h"
    [] c = "I" -> "i"
    [] c = "J" -> "j"
    [] c = "K" -> "k"
    [] c = "L" -> "l"
    [] c = "M" -> "m"
    [] c = "N" -> "n"
    [] c = "O" -> "o"
    [] c = "P" -> "p"
    [] c = "Q" -> "q"
    [] c = "R" -> "r"
    [] c = "S" -> "s"
    [] c = "T" -> "t"
    [] c = "U" -> "u"
    [] c = "V" -> "v"
    [] c = "W" -> "w"
    [] c = "X" -> "x"
    [] c = "Y" -> "y"
    [] c = "Z" -> "z"
    [] OTHER -> c

ToLower(s) == [i \in 1..Len(s) |-> LowerOf(s[i])]

\* strings.EqualFold on the letters of the model
EqualFold(s, t) == ToLower(s) = ToLower(t)

HasPrefix(s, p) == Len(s) >= Len(p) /\ SubSeq(s, 1, Len(p)) = p

HasSuffix(s, p) == Len(s) >= Len(p) /\ SubSeq(s, Len(s) - Len(p) + 1, Len(s)) = p

AllIn(s, cs) == \A i \in 1..Len(s) : s[i] \in cs

\* strings.Index(s, t): 0-based index of the first occurrence of t in s, -1
\* when there is none
IndexOf(s, t) ==
  LET at == {i \in 1..(Len(s) - Len(t) + 1) : SubSeq(s, i, i + Len(t) - 1) = t}
  IN IF at = {} THEN -1 ELSE (CHOOSE i \in at : \A j \in at : i <= j) - 1

\* strings.Index(s, c) for a one-character c
Index(s, c) ==
  IF \E i \in 1..Len(s) : s[i] = c
    THEN (CHOOSE i \in 1..Len(s) : s[i] = c /\ \A j \in 1..(i-1) : s[j] # c) - 1
    ELSE -1

\* strings.Split(s, c) for a one-character separator c
RECURSIVE Split(_, _)
Split(s, c) ==
  LET i == Index(s, c)
  IN IF i < 0 THEN <<s>>
     ELSE <<SubSeq(s, 1, i)>> \o Split(SubSeq(s, i + 2, Len(s)), c)

\* strings.Fields(s): the maximal runs of characters other than white space
Fields(s) == SelectSeq(Split(s, " "), LAMBDA f : f # <<>>)

\* the second result of path.Split: what follows the final slash
PathSplitFile(s) ==
  LET slashes == {i \in 1..Len(s) : s[i] = "/"}
      last == IF slashes = {} THEN 0
              ELSE CHOOSE i \in slashes : \A j \in slashes : j <= i
  IN SubSeq(s, last + 1, Len(s))

RECURSIVE SumSeq(_)
SumSeq(s) == IF s = <<>> THEN 0 ELSE Head(s) + SumSeq(Tail(s))


(***************************************************************************)
(* Names and keys.                                                         *)
(***************************************************************************)
\* format-version tag of the serialized documentation record
PackageVersion == <<"1">>
versionPrefix == PackageVersion \o <<"-">>
docKeyPrefix == <<"d","o","c","-">> \o PackageVersion \o <<":">>
packageListKey == <<"p","k","g","l","i","s","t","2">>
projectListKeyPrefix == <<"p","r","o","j","2",":">>
LegacyMirrorPrefix == <<"c","o","d","e",".","g","o","o","g","l","e",".","c","o","m","/","p","/","g","o","/">>
DocumentationTruncated == <<"D","o","c","u","m","e","n","t","a","t","i","o","n"," ","t","r","u","n","c","a","t","e","d",".">>

\* the remote import path the requests are about and its project root
PathSub == <<"g","i","t","h","u","b",".","c","o","m","/","U","/","r","/","s","u","b">>
RootR == <<"g","i","t","h","u","b",".","c","o","m","/","U","/","r">>
\* a standard-library import path
PathStd == <<"f","m","t">>

\* the import paths of the standard library (the map is not in src/)
StandardPackages == {PathStd}

Paths == {PathSub}
AllPaths == Paths \cup StandardPackages
DocKey(importPath) == docKeyPrefix \o importPath
ProjKey(projectRoot) == projectListKeyPrefix \o projectRoot
CacheKeys ==
  {packageListKey, ProjKey(RootR), ProjKey(<<>>)} \cup {DocKey(p) : p \in AllPaths}
KeyNames == AllPaths \cup {<<"/">> \o p : p \in AllPaths}

(***************************************************************************)
(* The upstream repository: the revisions a fetch can find.  Each has the  *)
(* ETag the adapter computes for it and the record buildDoc makes of it.   *)
(***************************************************************************)
Revisions == {"r1", "r2", "r3"}

\* the revisions of a directory of the standard library: r0 is a directory
\* that holds no Go file, r4 one whose declarations encode to more than the
\* size limit, r5 one whose list of files does.  Of a repository on GitHub
\* rx is the state in which its refs list names neither refs/heads/master
\* nor a go1 ref (its branches have other names).
RevisionsOf(importPath) ==
  IF importPath \in StandardPackages THEN {"r0", "r1", "r4", "r5"}
  ELSE Revisions \cup {"rx"}

RevEtag(r) ==
  CASE r = "r0" -> <<"e","0">>
    [] r = "r1" -> <<"e","1">>
    [] r = "r2" -> <<"e","2">>
    [] r = "r3" -> <<"e","3">>
    [] r = "r4" -> <<"e","4">>
    [] r = "r5" -> <<"e","5">>
    [] r = "rx" -> <<>>

\* r2 differs from r1 in its doc text only, r3 in its synopsis
RevSynopsis(r) == IF r = "r3" THEN <<"T">> ELSE <<"S">>
RevDoc(r) == IF r = "r2" THEN <<"a",".","c">> ELSE <<"a",".","b">>

\* the record of the files of revision r: the package is named after the
\* directory; no file, no package name and no exports.  Consts, Funcs,
\* Types, Vars and Files hold the encoded size of each of their entries.
buildDoc(importPath, projectRoot, etag, r) ==
  [ImportPath |-> importPath, ProjectRoot |-> projectRoot, Etag |-> etag,
   Name |-> IF r = "r0" THEN <<>> ELSE PathSplitFile(importPath), IsCmd |-> FALSE,
   Synopsis |-> RevSynopsis(r), Doc |-> RevDoc(r), Errors |-> <<>>,
   Consts |-> <<>>,
   Funcs |-> IF r = "r0" THEN <<>> ELSE IF r = "r4" THEN <<MaxDocSize>> ELSE <<120>>,
   Types |-> <<>>, Vars |-> <<>>,
   Files |-> IF r = "r0" THEN <<>> ELSE IF r = "r5" THEN <<MaxDocSize>> ELSE <<40>>]

(***************************************************************************)
(* The network as the resolver sees it: web = [rev, inTree, netOK, pages]. *)
(* rev is the revision upstream, inTree says that the directory of the     *)
(* import path exists there and holds documentation files, netOK that the  *)
(* requests of an adapter succeed; pages maps <<scheme, uri>> to the       *)
(* response [status, tokens] of a discovery request, a request outside its *)
(* domain fails to connect.                                                *)
(***************************************************************************)
Upstream(r, inTree, netOK) ==
  [inTree |-> inTree, netOK |-> netOK, rev |-> r, pages |-> <<>>]

\* client.Get(proto + uri): None for an error
ClientGet(web, scheme, uri) ==
  IF <<scheme, uri>> \in DOMAIN web.pages THEN Some(web.pages[<<scheme, uri>>])
  ELSE None

(***************************************************************************)
(* The adapters.  A result is [err, pdoc, ops]: err is "nil", "notfound",  *)
(* "notmodified" or "transport"; ops lists what the adapter did, in order: *)
(* "refs", "trees" and "listing" are the GETs of the manifests of a        *)
(* repository, "tarball" the GET of its archive, "fetchFiles" and          *)
(* "readEntries" the reading of the bodies of the files (by fetchFiles, or *)
(* by ioutil.ReadAll on the entries of the archive), "buildDoc" the call   *)
(* of the documentation builder.  m is the submatch list of the service's  *)
(* pattern, m[1] the whole match (m[0] in the code).                       *)
(***************************************************************************)
Result(err, pdoc, ops) == [err |-> err, pdoc |-> pdoc, ops |-> ops]

\* a getGithubDoc that compares the ETag after it has fetched the files
getGithubDoc_CompareLate(m, savedEtag, web) ==
  LET etag == RevEtag(web.rev)
  IN IF ~web.netOK THEN Result("transport", None, <<"refs">>)
     ELSE IF ~web.inTree \/ web.rev = "rx" THEN Result("notfound", None, <<"refs", "trees">>)
     ELSE IF etag = savedEtag
       THEN Result("notmodified", None, <<"refs", "trees", "fetchFiles">>)
     ELSE Result("nil", Some(buildDoc(m[1], <<"g","i","t","h","u","b",".","c","o","m","/">> \o m[2] \o <<"/">> \o m[3], etag, web.rev)),
                 <<"refs", "trees", "fetchFiles", "buildDoc">>)

getGithubDoc(m, savedEtag, web) ==
  LET importPath == m[1]
      projectRoot == <<"g","i","t","h","u","b",".","c","o","m","/">> \o m[2] \o <<"/">> \o m[3]
      etag == RevEtag(web.rev)
  IN IF ~web.netOK THEN Result("transport", None, <<"refs">>)
     ELSE IF etag = savedEtag THEN Result("notmodified", None, <<"refs">>)
     ELSE IF ~web.inTree \/ web.rev = "rx" THEN Result("notfound", None, <<"refs", "trees">>)
     ELSE Result("nil", Some(buildDoc(importPath, projectRoot, etag, web.rev)),
                 <<"refs", "trees", "fetchFiles", "buildDoc">>)

\* httpGetBytesCompare (part_002:155-163) and, on success, buildDoc: the
\* adapters that fetch one listing or archive and compare its hash.  With
\* checksTree the GET is that of the archive, whose entries are read and
\* looked through for documentation files; without, it is that of the
\* listing of the directory, which is not found when the directory is not
\* there.
compareDoc(importPath, projectRoot, savedEtag, web, checksTree) ==
  LET etag == RevEtag(web.rev)
      manifest == IF checksTree THEN <<"tarball">> ELSE <<"listing">>
      bodies == IF checksTree THEN <<"readEntries">> ELSE <<"fetchFiles">>
  IN IF ~web.netOK THEN Result("transport", None, manifest)
     ELSE IF ~checksTree /\ ~web.inTree THEN Result("notfound", None, manifest)
     ELSE IF etag = savedEtag THEN Result("notmodified", None, manifest)
     ELSE IF checksTree /\ ~web.inTree THEN Result("notfound", None, manifest \o bodies)
     ELSE Result("nil", Some(buildDoc(importPath, projectRoot, etag, web.rev)),
                 manifest \o bodies \o <<"buildDoc">>)

getGoogleDoc(m, savedEtag, web) ==
  compareDoc(m[1], <<"c","o","d","e",".","g","o","o","g","l","e",".","c","o","m","/","p","/">> \o m[2] \o m[3], savedEtag, web, FALSE)

getBitbucketDoc(m, savedEtag, web) ==
  compareDoc(m[1], <<"b","i","t","b","u","c","k","e","t",".","o","r","g","/">> \o m[2] \o <<"/">> \o m[3], savedEtag, web, FALSE)

getLaunchpadDoc(m, savedEtag, web) ==
  LET projectName == IF m[3] # <<>> THEN m[3] ELSE m[2]
  IN compareDoc(m[1], <<"l","a","u","n","c","h","p","a","d",".","n","e","t","/">> \o projectName, savedEtag, web, TRUE)

getGitoriousDoc(m, savedEtag, web) ==
  compareDoc(m[1], <<"g","i","t",".","g","i","t","o","r","i","o","u","s",".","o","r","g","/">> \o m[2] \o <<"/">> \o m[3] \o <<".","g","i","t">>,
             savedEtag, web, TRUE)

getStandardDoc(importPath, savedEtag, web) ==
  compareDoc(importPath, <<>>, savedEtag, web, FALSE)

\* the archive of the proxy is not compared: the record carries the ETag the
\* caller passed
getProxyDoc(importPath, projectRoot, etag, web) ==
  IF ~web.netOK THEN Result("transport", None, <<"tarball">>)
  ELSE IF ~web.inTree THEN Result("notfound", None, <<"tarball">>)
  ELSE Result("nil", Some(buildDoc(importPath, projectRoot, etag, web.rev)),
              <<"tarball", "readEntries", "buildDoc">>)

(***************************************************************************)
(* The service patterns: FindStringSubmatch of an import path, None for no *)
(* match, else the list of submatches.  Throughout the resolver a value    *)
(* that is used more than once is the parameter of a local operator.       *)
(***************************************************************************)
\* ^prefix([W]+)/([W]+)suffix(/[W/]*)?$ with W the class WordChars: the shape
\* of githubPattern, bitbucketPattern and gitoriousPattern
ownerRepoPattern(prefix, suffix, s) ==
  LET submatch(rest, parts) ==
        IF /\ Len(parts) >= 2
           /\ Len(parts[1]) >= 1
           /\ HasSuffix(parts[2], suffix) /\ Len(parts[2]) > Len(suffix)
           /\ AllIn(rest, WordChars \cup {"/"})
          THEN Some(<<s, parts[1], SubSeq(parts[2], 1, Len(parts[2]) - Len(suffix)),
                      SubSeq(rest, Len(parts[1]) + Len(parts[2]) + 2, Len(rest))>>)
          ELSE None
      after(rest) == submatch(rest, Split(rest, "/"))
  IN IF HasPrefix(s, prefix) THEN after(SubSeq(s, Len(prefix) + 1, Len(s))) ELSE None

\* ^code\.google\.com/p/([a-z0-9\-]+)(\.[a-z0-9\-]+)?(/[W/]+)?$
googlePattern(s) ==
  LET prefix == <<"c","o","d","e",".","g","o","o","g","l","e",".","c","o","m","/","p","/">>
      cs == Lower \cup Digit \cup {"-"}
      submatch(repo, subrepo, dir) ==
        IF /\ Len(repo) >= 1 /\ AllIn(repo, cs)
           /\ subrepo = <<>> \/ (Len(subrepo) >= 2 /\ AllIn(Tail(subrepo), cs))
           /\ dir = <<>> \/ (Len(dir) >= 2 /\ AllIn(dir, WordChars \cup {"/"}))
          THEN Some(<<s, repo, subrepo, dir>>)
          ELSE None
      dotted(first, k, dir) ==
        submatch(IF k < 0 THEN first ELSE SubSeq(first, 1, k),
                 IF k < 0 THEN <<>> ELSE SubSeq(first, k + 1, Len(first)), dir)
      slashed(rest, j) ==
        dotted(IF j < 0 THEN rest ELSE SubSeq(rest, 1, j),
               Index(IF j < 0 THEN rest ELSE SubSeq(rest, 1, j), "."),
               IF j < 0 THEN <<>> ELSE SubSeq(rest, j + 1, Len(rest)))
      after(rest) == slashed(rest, Index(rest, "/"))
  IN IF HasPrefix(s, prefix) THEN after(SubSeq(s, Len(prefix) + 1, Len(s))) ELSE None

\* ^launchpad\.net/(([W]+)(/[W]+)?|~[W]+/(\+junk|[W]+)/[W]+)(/[W/]+)*$
launchpadPattern(s) ==
  LET prefix == <<"l","a","u","n","c","h","p","a","d",".","n","e","t","/">>
      word(t) == Len(t) >= 1 /\ AllIn(t, WordChars)
      tailOK(t) == t = <<>> \/ (Len(t) >= 2 /\ AllIn(t, WordChars \cup {"/"}))
      joined(a, b) == a \o <<"/">> \o b
      submatch(rest, parts) ==
        LET \* what follows the first n segments, with its leading slash
            from(n) == SubSeq(rest, SumSeq([i \in 1..n |-> Len(parts[i]) + 1]), Len(rest))
        IN IF word(parts[1])
             THEN IF Len(parts) >= 2 /\ word(parts[2]) /\ tailOK(from(2))
                    THEN Some(<<s, joined(parts[1], parts[2]), parts[1],
                                <<"/">> \o parts[2], <<>>, from(2)>>)
                  ELSE IF tailOK(from(1))
                    THEN Some(<<s, parts[1], parts[1], <<>>, <<>>, from(1)>>)
                  ELSE None
           ELSE IF /\ Len(parts) >= 3
                   /\ Len(parts[1]) >= 2 /\ parts[1][1] = "~"
                   /\ AllIn(Tail(parts[1]), WordChars)
                   /\ parts[2] = <<"+","j","u","n","k">> \/ word(parts[2])
                   /\ word(parts[3])
                   /\ tailOK(from(3))
             THEN Some(<<s, joined(joined(parts[1], parts[2]), parts[3]),
                         <<>>, <<>>, parts[2], from(3)>>)
           ELSE None
      after(rest) == submatch(rest, Split(rest, "/"))
  IN IF HasPrefix(s, prefix) THEN after(SubSeq(s, Len(prefix) + 1, Len(s))) ELSE None

(***************************************************************************)
(* getStatic, getMeta, getDynamic and Get (doc.go).  A result is           *)
(* [err, pdoc, calls]: calls lists, in order, the requests made: an        *)
(* adapter invoked as <<name, import path, saved ETag>>, a discovery       *)
(* request as <<scheme, uri>>.  err can also be "nomatch" (errNoMatch).    *)
(***************************************************************************)
Traced(err, pdoc, calls) == [err |-> err, pdoc |-> pdoc, calls |-> calls]

\* the result of an adapter, with the call of it
Called(res, call) == Traced(res.err, res.pdoc, <<call>>)

\* the registry, in its order
services ==
  <<[prefix |-> <<"g","i","t","h","u","b",".","c","o","m","/">>, name |-> "github"],
    [prefix |-> <<"c","o","d","e",".","g","o","o","g","l","e",".","c","o","m","/">>, name |-> "google"],
    [prefix |-> <<"b","i","t","b","u","c","k","e","t",".","o","r","g","/">>, name |-> "bitbucket"],
    [prefix |-> <<"l","a","u","n","c","h","p","a","d",".","n","e","t","/">>, name |-> "launchpad"],
    [prefix |-> <<"g","i","t",".","g","i","t","o","r","i","o","u","s",".","o","r","g","/">>, name |-> "gitorious"]>>

\* the index of the first service whose prefix the import path has, or 0
RECURSIVE FirstService(_, _)
FirstService(importPath, i) ==
  IF i > Len(services) THEN 0
  ELSE IF HasPrefix(importPath, services[i].prefix) THEN i
  ELSE FirstService(importPath, i + 1)

\* s.pattern.FindStringSubmatch(importPath): githubPattern, googlePattern,
\* bitbucketPattern, launchpadPattern and gitoriousPattern
FindStringSubmatch(name, importPath) ==
  CASE name = "github" -> ownerRepoPattern(<<"g","i","t","h","u","b",".","c","o","m","/">>, <<>>, importPath)
    [] name = "google" -> googlePattern(importPath)
    [] name = "bitbucket" -> ownerRepoPattern(<<"b","i","t","b","u","c","k","e","t",".","o","r","g","/">>, <<>>, importPath)
    [] name = "launchpad" -> launchpadPattern(importPath)
    [] name = "gitorious" ->
         ownerRepoPattern(<<"g","i","t",".","g","i","t","o","r","i","o","u","s",".","o","r","g","/">>, <<".","g","i","t">>, importPath)

\* s.getDoc(client, m, etag)
serviceDoc(name, m, etag, web) ==
  CASE name = "github" -> getGithubDoc(m, etag, web)
    [] name = "google" -> getGoogleDoc(m, etag, web)
    [] name = "bitbucket" -> getBitbucketDoc(m, etag, web)
    [] name = "launchpad" -> getLaunchpadDoc(m, etag, web)
    [] name = "gitorious" -> getGitoriousDoc(m, etag, web)

\* a getStatic that goes on to the next service when the pattern of a
\* service whose prefix matches does not match
getStatic_TryNext(importPath, etag, web) ==
  LET matched(name, m) ==
        Called(serviceDoc(name, Val(m), etag, web), <<name, importPath, etag>>)
      first(found) ==
        IF found = {} THEN Traced("nomatch", None, <<>>)
        ELSE matched(services[CHOOSE i \in found : \A j \in found : i <= j].name,
                     FindStringSubmatch(
                       services[CHOOSE i \in found : \A j \in found : i <= j].name,
                       importPath))
  IN first({i \in 1..Len(services) :
              /\ HasPrefix(importPath, services[i].prefix)
              /\ FindStringSubmatch(services[i].name, importPath) # None})

\* the loop returns at the first service whose prefix matches
getStatic(importPath, etag, web) ==
  LET matched(s, m) ==
        IF m = None /\ s.prefix # <<>> THEN Traced("notfound", None, <<>>)
        ELSE Called(serviceDoc(s.name, Val(m), etag, web), <<s.name, importPath, etag>>)
      at(i) == IF i = 0 THEN Traced("nomatch", None, <<>>)
               ELSE matched(services[i], FindStringSubmatch(services[i].name, importPath))
  IN at(FirstService(importPath, 1))

\* attrValue(attrs, name)
RECURSIVE attrValue(_, _)
attrValue(attrs, name) ==
  IF attrs = <<>> THEN <<>>
  ELSE IF EqualFold(Head(attrs).Local, name) THEN Head(attrs).Value
  ELSE attrValue(Tail(attrs), name)

\* f := strings.Fields(attrValue(t.Attr, "content")) and the test of it
\* (doc.go:99-105): three fields, the first a prefix of the import path that
\* ends at a slash or at its end
Declares(f, importPath) ==
  /\ Len(f) = 3
  /\ HasPrefix(importPath, f[1])
  /\ Len(importPath) = Len(f[1]) \/ importPath[Len(f[1]) + 1] = "/"

\* a start element that is a meta element named go-import
isImport(t) ==
  /\ EqualFold(t.Local, <<"m","e","t","a">>)
  /\ attrValue(t.Attr, <<"n","a","m","e">>) = <<"g","o","-","i","m","p","o","r","t">>

\* a loop in which the first matching declaration wins and the later ones
\* are skipped
RECURSIVE metaLoop_FirstWins(_, _, _)
metaLoop_FirstWins(tokens, importPath, st) ==
  LET given(t, f) ==
        IF t.kind = "end" /\ EqualFold(t.Local, <<"h","e","a","d">>) THEN st
        ELSE IF t.kind = "start" /\ EqualFold(t.Local, <<"b","o","d","y">>) THEN st
        ELSE IF t.kind = "start" /\ isImport(t) /\ Declares(f, importPath)
          THEN [st EXCEPT !.err = "nil", !.projectRoot = f[1], !.repoRoot = f[3]]
        ELSE metaLoop_FirstWins(Tail(tokens), importPath, st)
      on(t) == given(t, Fields(attrValue(t.Attr, <<"c","o","n","t","e","n","t">>)))
  IN IF tokens = <<>> THEN st ELSE on(Head(tokens))

\* the token loop of getMeta (doc.go:82-118) from the named results st on
RECURSIVE metaLoop(_, _, _)
metaLoop(tokens, importPath, st) ==
  LET given(t, f) ==
        IF t.kind = "end" /\ EqualFold(t.Local, <<"h","e","a","d">>) THEN st
        ELSE IF t.kind = "start" /\ EqualFold(t.Local, <<"b","o","d","y">>) THEN st
        ELSE IF t.kind = "start" /\ isImport(t) /\ Declares(f, importPath)
          THEN IF st.err = "nil" THEN [st EXCEPT !.err = "notfound"]
               ELSE metaLoop(Tail(tokens), importPath,
                             [st EXCEPT !.err = "nil", !.projectRoot = f[1],
                                        !.repoRoot = f[3]])
        ELSE metaLoop(Tail(tokens), importPath, st)
      on(t) == given(t, Fields(attrValue(t.Attr, <<"c","o","n","t","e","n","t">>)))
  IN IF tokens = <<>> THEN st ELSE on(Head(tokens))

\* getMeta: [projectRoot, err, calls, repoRoot]
getMeta(importPath, web) ==
  LET uri == (IF Index(importPath, "/") < 0 THEN importPath \o <<"/">> ELSE importPath)
             \o <<"?","g","o","-","g","e","t","=","1">>
      st(err, calls) ==
        [projectRoot |-> <<>>, err |-> err, calls |-> calls, repoRoot |-> <<>>]
      read(resp, calls) ==
        IF resp = None THEN st("transport", calls)
        ELSE metaLoop(Val(resp).tokens, importPath, st("notfound", calls))
      both(first, again) ==
        read(IF again THEN ClientGet(web, "http", uri) ELSE first,
             IF again THEN <<<<"https", uri>>, <<"http", uri>>>> ELSE <<<<"https", uri>>>>)
      got(first) == both(first, first = None \/ Val(first).status # 200)
  IN got(ClientGet(web, "https", uri))

\* importPath = repo[i+len("://"):] + importPath[len(projectRoot):]
Rewritten(importPath, projectRoot, repoRoot, i) ==
  SubSeq(repoRoot, i + 4, Len(repoRoot)) \o SubSeq(importPath, Len(projectRoot) + 1, Len(importPath))

\* a getDynamic that turns to the proxy after every error of the second
\* getStatic
getDynamic_ProxyOnError(importPath, etag, web) ==
  LET proxied(px, calls) == Traced(px.err, px.pdoc, calls)
      fallback(meta, calls, st) ==
        IF st.err = "nil"
          THEN Traced("nil", Some([Val(st.pdoc) EXCEPT !.ImportPath = importPath,
                                                       !.ProjectRoot = meta.projectRoot]),
                      calls \o st.calls)
        ELSE proxied(getProxyDoc(importPath, meta.projectRoot, etag, web),
                     calls \o st.calls \o <<<<"proxy", importPath, etag>>>>)
      rewrite(meta, calls, i) ==
        IF i < 0 THEN Traced("notfound", None, calls)
        ELSE fallback(meta, calls,
                      getStatic(Rewritten(importPath, meta.projectRoot, meta.repoRoot, i),
                                etag, web))
      verified(meta, ok, err, calls) ==
        IF ~ok THEN Traced(err, None, calls)
        ELSE rewrite(meta, calls, IndexOf(meta.repoRoot, <<":","/","/">>))
      verify(meta, root) ==
        verified(meta, root.err = "nil" /\ root.projectRoot = meta.projectRoot,
                 IF root.err # "nil" THEN root.err ELSE "notfound",
                 meta.calls \o root.calls)
      discovered(meta) ==
        IF meta.err # "nil" THEN Traced(meta.err, None, meta.calls)
        ELSE verify(meta, IF meta.projectRoot # importPath
                            THEN getMeta(meta.projectRoot, web)
                            ELSE [meta EXCEPT !.calls = <<>>])
  IN discovered(getMeta(importPath, web))

\* a getDynamic that does not compare the project root of the second
\* discovery with that of the first
getDynamic_Unverified(importPath, etag, web) ==
  LET proxied(px, calls) == Traced(px.err, px.pdoc, calls)
      fallback(meta, calls, st) ==
        IF st.err = "nil"
          THEN Traced("nil", Some([Val(st.pdoc) EXCEPT !.ImportPath = importPath,
                                                       !.ProjectRoot = meta.projectRoot]),
                      calls \o st.calls)
        ELSE IF st.err = "nomatch"
          THEN proxied(getProxyDoc(importPath, meta.projectRoot, etag, web),
                       calls \o st.calls \o <<<<"proxy", importPath, etag>>>>)
        ELSE Traced(st.err, None, calls \o st.calls)
      rewrite(meta, calls, i) ==
        IF i < 0 THEN Traced("notfound", None, calls)
        ELSE fallback(meta, calls,
                      getStatic(Rewritten(importPath, meta.projectRoot, meta.repoRoot, i),
                                etag, web))
      verified(meta, ok, err, calls) ==
        IF ~ok THEN Traced(err, None, calls)
        ELSE rewrite(meta, calls, IndexOf(meta.repoRoot, <<":","/","/">>))
      verify(meta, root) ==
        verified(meta, root.err = "nil", root.err, meta.calls \o root.calls)
      discovered(meta) ==
        IF meta.err # "nil" THEN Traced(meta.err, None, meta.calls)
        ELSE verify(meta, IF meta.projectRoot # importPath
                            THEN getMeta(meta.projectRoot, web)
                            ELSE [meta EXCEPT !.calls = <<>>])
  IN discovered(getMeta(importPath, web))

\* getDynamic (doc.go:122-160); the project name and URL of the record are
\* not modelled.  root is the second getMeta, made when the project root is
\* not the import path itself.
getDynamic(importPath, etag, web) ==
  LET proxied(px, calls) == Traced(px.err, px.pdoc, calls)
      fallback(meta, calls, st) ==
        IF st.err = "nil"
          THEN Traced("nil", Some([Val(st.pdoc) EXCEPT !.ImportPath = importPath,
                                                       !.ProjectRoot = meta.projectRoot]),
                      calls \o st.calls)
        ELSE IF st.err = "nomatch"
          THEN proxied(getProxyDoc(importPath, meta.projectRoot, etag, web),
                       calls \o st.calls \o <<<<"proxy", importPath, etag>>>>)
        ELSE Traced(st.err, None, calls \o st.calls)
      rewrite(meta, calls, i) ==
        IF i < 0 THEN Traced("notfound", None, calls)
        ELSE fallback(meta, calls,
                      getStatic(Rewritten(importPath, meta.projectRoot, meta.repoRoot, i),
                                etag, web))
      verified(meta, ok, err, calls) ==
        IF ~ok THEN Traced(err, None, calls)
        ELSE rewrite(meta, calls, IndexOf(meta.repoRoot, <<":","/","/">>))
      verify(meta, root) ==
        verified(meta, root.err = "nil" /\ root.projectRoot = meta.projectRoot,
                 IF root.err # "nil" THEN root.err ELSE "notfound",
                 meta.calls \o root.calls)
      discovered(meta) ==
        IF meta.err # "nil" THEN Traced(meta.err, None, meta.calls)
        ELSE verify(meta, IF meta.projectRoot # importPath
                            THEN getMeta(meta.projectRoot, web)
                            ELSE [meta EXCEPT !.calls = <<>>])
  IN discovered(getMeta(importPath, web))

\* the characters ValidRemotePath refuses: below 0x20 and 0x7f, the
\* backslash, white space and the listed punctuation (the grave accent and
\* the decoding error utf8.RuneError are not characters of the model)
BadRunes ==
  {"\t", "\n", "\\", " ", "!", "\"", "#", "$", "%", "&", "'", "(", ")", "*", ",",
   ":", ";", "<", "=", ">", "?", "[", "]", "^", "{", "|", "}"}

badTLDs ==
  {<<".","p","n","g">>, <<".","h","t","m","l">>, <<".","j","p","g">>, <<".","i","c","o">>, <<".","t","x","t">>, <<".","x","m","l">>, <<".","g","o">>, <<".","g","i","f">>}

\* validHost.MatchString(h) for ^[-A-Za-z0-9]+(?:\.[-A-Za-z0-9]+)+ : the
\* expression is not anchored at its end
validHost(h) ==
  LET dotAt(d) == /\ d >= 1 /\ AllIn(SubSeq(h, 1, d), HostChars)
                  /\ Len(h) >= d + 2 /\ h[d + 2] \in HostChars
  IN dotAt(Index(h, "."))

\* a ValidRemotePath that looks at the last segment only
ValidRemotePath_LastSegment(importPath) ==
  LET valid(parts) ==
        /\ validHost(parts[1])
        /\ \A tld \in badTLDs : ~HasSuffix(parts[1], tld)
        /\ \A i \in {Len(parts)} \ {1} :
             /\ Len(parts[i]) # 0
             /\ parts[i][1] # "." /\ parts[i][1] # "_"
             /\ parts[i] # <<"t","e","s","t","d","a","t","a">>
  IN /\ \A i \in 1..Len(importPath) : importPath[i] \notin BadRunes
     /\ valid(Split(importPath, "/"))

ValidRemotePath(importPath) ==
  LET valid(parts) ==
        /\ validHost(parts[1])
        /\ \A tld \in badTLDs : ~HasSuffix(parts[1], tld)
        /\ \A i \in 2..Len(parts) :
             /\ Len(parts[i]) # 0
             /\ parts[i][1] # "." /\ parts[i][1] # "_"
             /\ parts[i] # <<"t","e","s","t","d","a","t","a">>
  IN /\ \A i \in 1..Len(importPath) : importPath[i] \notin BadRunes
     /\ valid(Split(importPath, "/"))

\* a switch that tries the static services before it looks at the shape of
\* the import path
GetSwitch_StaticFirst(importPath, etag, web) ==
  LET orDynamic(st) ==
        IF st.err # "nomatch" THEN st
        ELSE IF ~ValidRemotePath(importPath) THEN Traced("notfound", None, <<>>)
        ELSE getDynamic(importPath, etag, web)
  IN IF importPath \in StandardPackages
       THEN Called(getStandardDoc(importPath, etag, web), <<"standard", importPath, etag>>)
     ELSE orDynamic(getStatic(importPath, etag, web))

\* the switch of Get (doc.go:191-201)
GetSwitch(importPath, etag, web) ==
  LET orDynamic(st) ==
        IF st.err = "nomatch" THEN getDynamic(importPath, etag, web) ELSE st
  IN IF importPath \in StandardPackages
       THEN Called(getStandardDoc(importPath, etag, web), <<"standard", importPath, etag>>)
     ELSE IF ~ValidRemotePath(importPath) THEN Traced("notfound", None, <<>>)
     ELSE orDynamic(getStatic(importPath, etag, web))

\* pdoc.Etag = versionPrefix + pdoc.Etag, when the resolver returned a record
WithMarker(res) ==
  IF res.err = "nil"
    THEN [res EXCEPT !.pdoc = Some([Val(res.pdoc) EXCEPT !.Etag = versionPrefix \o @])]
    ELSE res

\* the ETag without its version marker; empty when the marker is not there
StripMarker(etag) ==
  IF HasPrefix(etag, versionPrefix) THEN SubSeq(etag, Len(versionPrefix) + 1, Len(etag))
  ELSE <<>>

\* a doc.Get that cuts the length of the marker off the saved ETag without
\* looking at what it cuts
Get_StripAny(importPath, etag, web) ==
  WithMarker(GetSwitch(importPath, SubSeq(etag, Len(versionPrefix) + 1, Len(etag)), web))

\* a doc.Get that hands the saved ETag to the adapter with its marker
Get_KeepMarker(importPath, etag, web) == WithMarker(GetSwitch(importPath, etag, web))

\* a doc.Get that reports every error of the resolver as "not found"
Get_ErrorAsNotFound(importPath, etag, web) ==
  LET notFound(res) ==
        IF res.err \in {"nil", "notmodified"} THEN res ELSE [res EXCEPT !.err = "notfound"]
  IN notFound(WithMarker(GetSwitch(importPath, StripMarker(etag), web)))

Get(importPath, etag, web) == WithMarker(GetSwitch(importPath, StripMarker(etag), web))

(***************************************************************************)
(* Serialization (encoding/gob).  A blob is <<"gob", object>>; the         *)
(* tombstone is the one-byte blob <<0>>.                                   *)
(***************************************************************************)
GobEncode(obj) == <<"gob", obj>>
GobDecode(blob) == blob[2]

SumLen(ss) == SumSeq([i \in 1..Len(ss) |-> Len(ss[i])])

\* buf.Len() of the encoded documentation record
GobLen(pdoc) ==
  Len(pdoc.ImportPath) + Len(pdoc.ProjectRoot) + Len(pdoc.Etag) + Len(pdoc.Name)
  + Len(pdoc.Synopsis) + Len(pdoc.Doc) + SumLen(pdoc.Errors)
  + SumSeq(pdoc.Consts) + SumSeq(pdoc.Funcs) + SumSeq(pdoc.Types) + SumSeq(pdoc.Vars)
  + SumSeq(pdoc.Files)

Truncated(pdoc) ==
  [pdoc EXCEPT !.Errors = Append(@, DocumentationTruncated),
               !.Vars = <<>>, !.Funcs = <<>>, !.Types = <<>>, !.Consts = <<>>]

\* the record updatePackage serializes, after the size check
StoredForm(pdoc) == IF GobLen(pdoc) > MaxDocSize THEN Truncated(pdoc) ELSE pdoc

DocEntity(pdoc) == [Version |-> PackageVersion, Gob |-> GobEncode(pdoc)]

(***************************************************************************)
(* The index record: projection of a documentation record and equality.    *)
(***************************************************************************)
\* a rule that hides a command only when its doc text has no period at all
Hide_AnyPeriod(importPath, pdoc) ==
  IF HasPrefix(importPath, LegacyMirrorPrefix) THEN TRUE
  ELSE IF pdoc.ProjectRoot = <<>> THEN TRUE
  ELSE IF pdoc.IsCmd THEN pdoc.Synopsis = <<>> \/ Index(pdoc.Doc, ".") < 0
  ELSE Len(pdoc.Consts) = 0 /\ Len(pdoc.Funcs) = 0
       /\ Len(pdoc.Types) = 0 /\ Len(pdoc.Vars) = 0

\* a rule list without the legacy mirror rule
Hide_NoLegacyRule(importPath, pdoc) ==
  IF pdoc.ProjectRoot = <<>> THEN TRUE
  ELSE IF pdoc.IsCmd
    THEN pdoc.Synopsis = <<>> \/ Index(pdoc.Doc, ".") < 0
         \/ Index(pdoc.Doc, ".") = Len(pdoc.Doc) - 1
  ELSE Len(pdoc.Consts) = 0 /\ Len(pdoc.Funcs) = 0
       /\ Len(pdoc.Types) = 0 /\ Len(pdoc.Vars) = 0

Hide(importPath, pdoc) ==
  IF HasPrefix(importPath, LegacyMirrorPrefix) THEN TRUE
  ELSE IF pdoc.ProjectRoot = <<>> THEN TRUE
  ELSE IF pdoc.IsCmd
    THEN LET i == Index(pdoc.Doc, ".")
         IN pdoc.Synopsis = <<>> \/ i < 0 \/ i = Len(pdoc.Doc) - 1
  ELSE Len(pdoc.Consts) = 0 /\ Len(pdoc.Funcs) = 0
       /\ Len(pdoc.Types) = 0 /\ Len(pdoc.Vars) = 0

\* an index that lists the package name of a visible library even when it
\* is the path segment
IndexTokens_AlwaysName(importPath, pdoc) ==
  LET t0 == IF pdoc.ProjectRoot # <<>> THEN <<ToLower(pdoc.ProjectRoot)>> ELSE <<>>
      seg == PathSplitFile(ToLower(pdoc.ImportPath))
      name == ToLower(pdoc.Name)
  IN IF HasPrefix(importPath, LegacyMirrorPrefix) THEN t0
     ELSE IF pdoc.ProjectRoot = <<>> THEN Append(t0, name)
     ELSE IF pdoc.IsCmd
       THEN IF Hide(importPath, pdoc) THEN t0 ELSE Append(t0, seg)
     ELSE IF Hide(importPath, pdoc) THEN t0
     ELSE Append(Append(t0, seg), name)

IndexTokens(importPath, pdoc) ==
  LET t0 == IF pdoc.ProjectRoot # <<>> THEN <<ToLower(pdoc.ProjectRoot)>> ELSE <<>>
      seg == PathSplitFile(ToLower(pdoc.ImportPath))
      name == ToLower(pdoc.Name)
  IN IF HasPrefix(importPath, LegacyMirrorPrefix) THEN t0
     ELSE IF pdoc.ProjectRoot = <<>> THEN Append(t0, name)
     ELSE IF pdoc.IsCmd
       THEN IF Hide(importPath, pdoc) THEN t0 ELSE Append(t0, seg)
     ELSE IF Hide(importPath, pdoc) THEN t0
     ELSE IF name # seg THEN Append(Append(t0, seg), name)
     ELSE Append(t0, seg)

\* lines 129-173 of updatePackage: pkg, or None for "remove from the index"
Projection(importPath, pdocM) ==
  IF pdocM = None \/ Val(pdocM).Name = <<>> THEN None
  ELSE LET pdoc == Val(pdocM)
       IN Some([ImportPath |-> <<>>,
                IsCmd |-> pdoc.IsCmd,
                Synopsis |-> pdoc.Synopsis,
                Hide |-> Hide(importPath, pdoc),
                IndexTokens |-> IndexTokens(importPath, pdoc),
                PackageName |-> pdoc.Name])

\* an equality that leaves the synopsis out
equal_NoSynopsis(pkg, other) ==
  /\ pkg.Hide = other.Hide
  /\ pkg.IsCmd = other.IsCmd
  /\ pkg.IndexTokens = other.IndexTokens

\* Package.equal (package.go:104-123); PackageName is not compared
equal(pkg, other) ==
  /\ pkg.Synopsis = other.Synopsis
  /\ pkg.Hide = other.Hide
  /\ pkg.IsCmd = other.IsCmd
  /\ Len(pkg.IndexTokens) = Len(other.IndexTokens)
  /\ \A i \in 1..Len(pkg.IndexTokens) : pkg.IndexTokens[i] = other.IndexTokens[i]

\* keyName of the index entity (package.go:215-219)
KeyName(importPath, pdocM) ==
  IF pdocM # None /\ Val(pdocM).ProjectRoot = <<>> THEN <<"/">> \o importPath
  ELSE importPath


(***************************************************************************)
(* State.                                                                  *)
(*   mc      ephemeral tier: key -> optional entry [Value, Expiration,     *)
(*           stale]; stale is history: the workers whose index write came  *)
(*           after the query a cached list was computed from               *)
(*   dsDoc   durable tier, kind Doc: import path -> optional entity        *)
(*   dsPkg   durable tier, kind Package: key name -> optional entity       *)
(*   faults  number of failed service calls so far                         *)
(*   pr      per request worker: position and locals of its handler; a    *)
(*           worker handles one request                                    *)
(*   rv      a call of the resolver made on its own: its arguments, the    *)
(*           function called and what it returned                          *)
(*   ff      a run of fetchFiles or a call of one of the GET helpers       *)
(* Time is not counted: a tombstone's expiration may elapse at any moment  *)
(* (action Expire), which covers every timing of the real clock.           *)
(***************************************************************************)
Procs == {"p1", "p2"}
ListKeys == {packageListKey, ProjKey(RootR), ProjKey(<<>>)}

Tombstone == <<0>>
IsTombstone(value) == Len(value) = 1 /\ value[1] = 0

Entry(value, expiration, stale) ==
  [Value |-> value, stale |-> stale, Expiration |-> expiration]

\* Locals of a handler.  item is "nil" for the fresh item cacheGet makes on
\* an error (Value nil) and "held" for the item memcache.Get returned;
\* current says that the compare-and-swap id the held item carries is still
\* the id of the stored entry (the service gives every write a new id, so
\* it is as long as nothing wrote or removed the key since the Get).
\* History only: rev, net, decided, docWrite, pkgWrite, wfail, clrKeys,
\* staleFor, swrote, casSaw, disturbed, dread (the durable-tier keys, as
\* <<kind, name>>, that a datastore.Get of this handler has read).
Fresh(op, pc) ==
  [etag |-> <<>>, rev |-> "none", pdoc |-> None, pkg |-> None,
   op |-> op, pc |-> pc, ret |-> "none", path |-> <<>>,
   saved |-> None, gerr |-> "none", net |-> TRUE, hit |-> FALSE,
   invalidate |-> FALSE, getErr |-> "none", storedPackage |-> None,
   decided |-> "none", docWrite |-> "none", pkgWrite |-> "none", wfail |-> FALSE,
   clrKeys |-> {},
   qkey |-> <<>>, qroot |-> None, item |-> "none", current |-> FALSE,
   pkgs |-> <<>>, staleFor |-> {},
   sret |-> "none", swrote |-> "no", casSaw |-> "none", disturbed |-> FALSE,
   dread |-> {}]

\* a finished handler keeps its result and the history of its cache writes,
\* not its locals
Done(r, ret) ==
  [Fresh(r.op, "done") EXCEPT
     !.ret = ret, !.path = r.path, !.hit = r.hit, !.gerr = r.gerr,
     !.wfail = r.wfail, !.clrKeys = r.clrKeys,
     !.qkey = r.qkey, !.item = r.item, !.pkgs = r.pkgs, !.staleFor = r.staleFor,
     !.sret = r.sret, !.swrote = r.swrote, !.disturbed = r.disturbed]

\* the documentation record of revision r as a finished resolution stores it
ResolvedDoc(path, r) == Val(Get(path, <<>>, Upstream(r, TRUE, TRUE)).pdoc)

\* the stores of a site that has resolved nothing yet
EmptyStores ==
  /\ dsDoc = [p \in AllPaths |-> None]
  /\ dsPkg = [k \in KeyNames |-> None]

\* the stores of a site that has resolved revision r of the paths before
IndexedStores(paths, r) ==
  LET docs == [p \in paths |-> ResolvedDoc(p, r)]
      stores(pdoc) ==
        /\ dsDoc = [p \in AllPaths |->
                      IF p \in paths THEN Some(DocEntity(StoredForm(pdoc[p]))) ELSE None]
        /\ dsPkg = [k \in KeyNames |->
                      IF \E p \in paths : k = KeyName(p, Some(pdoc[p]))
                        THEN LET p == CHOOSE p \in paths : k = KeyName(p, Some(pdoc[p]))
                             IN Projection(p, Some(pdoc[p]))
                      ELSE None]
  IN stores(docs)

\* the number of files of the largest fetchFiles run
MaxFiles == 3

\* no fetchFiles run and no helper call yet
NoFetch ==
  [err |-> [i \in 1..MaxFiles |-> <<"nil">>], n |-> 0, resp |-> None, got |-> 0, op |-> "none",
   pc |-> [i \in 1..MaxFiles |-> "none"], ret |-> <<"nil">>, out |-> None,
   data |-> [i \in 1..MaxFiles |-> None], main |-> "idle"]

\* the resolver is not called on its own
NoCall == [importPath |-> <<>>, etag |-> <<>>, web |-> Upstream("r1", TRUE, TRUE),
           op |-> "none", out |-> None]

Init ==
  /\ mc = [k \in CacheKeys |-> None]
  /\ EmptyStores \/ IndexedStores(Paths, "r1")
  /\ faults = 0
  /\ pr = [p \in Procs |-> Fresh("idle", "idle")]
  /\ rv = NoCall
  /\ ff = NoFetch

(***************************************************************************)
(* Service calls.  ok = FALSE is a failed call (an RPC error), which the   *)
(* fault budget allows.                                                    *)
(***************************************************************************)
Outcome(ok) ==
  /\ ok \/ faults < MaxFaults
  /\ faults' = IF ok THEN faults ELSE faults + 1

\* every write or removal of a key of ks gives it a new compare-and-swap
\* id: the items held for it are no longer current
Touch(ks, f) ==
  [q \in Procs |-> IF f[q].qkey \in ks THEN [f[q] EXCEPT !.current = FALSE] ELSE f[q]]

\* history: an invalidation of a key of ks came between a worker's cacheGet
\* of the key and now
Disturb(ks, f) ==
  [q \in Procs |-> IF f[q].qkey \in ks /\ f[q].item # "none"
                     THEN [f[q] EXCEPT !.disturbed = TRUE] ELSE f[q]]

\* memcache.CompareAndSwap that does not compare the id
CASOutcome_NoCompare(entry, current) == IF entry = None THEN "notstored" ELSE "nil"

\* memcache.CompareAndSwap that stores when the key holds no entry
CASOutcome_StoresOnMissing(entry, current) ==
  IF entry # None /\ ~current THEN "conflict" ELSE "nil"

\* memcache.CompareAndSwap on the stored entry
CASOutcome(entry, current) ==
  IF entry = None THEN "notstored"
  ELSE IF ~current THEN "conflict"
  ELSE "nil"

\* memcache.Add that stores over an existing entry
AddOutcome_Blind(entry) == "nil"

\* memcache.Add on the stored entry
AddOutcome(entry) == IF entry = None THEN "nil" ELSE "notstored"

(***************************************************************************)
(* cacheGet (util.go:25-37): [err, item, object].                          *)
(***************************************************************************)
\* a cacheGet without the case of the deleted sentinel: the one byte of a
\* tombstone goes to the gob decoder, which fails on it
cacheGet_NoSentinel(entry, ok) ==
  IF ~ok THEN [err |-> "error", item |-> "nil", object |-> None]
  ELSE IF entry = None THEN [err |-> "miss", item |-> "nil", object |-> None]
  ELSE IF IsTombstone(Val(entry).Value)
    THEN [err |-> "error", item |-> "held", object |-> None]
  ELSE [err |-> "nil", item |-> "held", object |-> Some(GobDecode(Val(entry).Value))]

\* a cacheGet that takes every stored entry for a tombstone: it is
\* reported as a miss
cacheGet_NeverHits(entry, ok) ==
  IF ~ok THEN [err |-> "error", item |-> "nil", object |-> None]
  ELSE IF entry = None THEN [err |-> "miss", item |-> "nil", object |-> None]
  ELSE [err |-> "miss", item |-> "held", object |-> None]

cacheGet(entry, ok) ==
  IF ~ok THEN [err |-> "error", item |-> "nil", object |-> None]
  ELSE IF entry = None THEN [err |-> "miss", item |-> "nil", object |-> None]
  ELSE IF IsTombstone(Val(entry).Value)
    THEN [err |-> "miss", item |-> "held", object |-> None]
  ELSE [err |-> "nil", item |-> "held", object |-> Some(GobDecode(Val(entry).Value))]

(***************************************************************************)
(* queryPackages (package.go:77-102) with cacheSafeSet (util.go:49-78),    *)
(* one step per service call.                                              *)
(***************************************************************************)
\* sorted key names of the Package kind
KeyOrder == <<(<<"/">> \o PathStd), (<<"/">> \o PathSub), PathStd, PathSub>>

\* __key__ > projectRoot+"/" and __key__ < projectRoot+"0": "0" is the
\* character after "/", so these are the keys that extend projectRoot+"/"
InProject(k, projectRoot) ==
  HasPrefix(k, projectRoot \o <<"/">>) /\ Len(k) > Len(projectRoot) + 1

\* query.GetAll and the loop that fills in ImportPath (package.go:81-92)
GetAll(qroot) ==
  LET sel(k) == /\ dsPkg[k] # None
                /\ IF qroot = None THEN ~Val(dsPkg[k]).Hide
                   ELSE InProject(k, Val(qroot))
      keys == SelectSeq(KeyOrder, sel)
  IN [i \in 1..Len(keys) |->
        [Val(dsPkg[keys[i]]) EXCEPT
           !.ImportPath = IF keys[i][1] = "/" THEN Tail(keys[i]) ELSE keys[i]]]

\* what the caller of queryPackages does with its result: packageIndexHandler
\* renders the list, getDoc filters the child packages (part_004:47-53) and
\* converts an empty package to not found (part_004:125-131)
QFinish(r, pkgs, err) ==
  IF err # "nil" THEN Done(r, "err")
  ELSE IF r.op = "index" THEN Done([r EXCEPT !.pkgs = pkgs], "ok")
  ELSE LET prefix == r.path \o <<"/">>
           isChild(pkg) == HasPrefix(pkg.ImportPath, prefix)
           children == SelectSeq(pkgs, isChild)
           pdoc == Val(r.pdoc)
       IN Done([r EXCEPT !.pkgs = pkgs],
               IF ~r.hit /\ Len(children) = 0 /\ pdoc.Name = <<>> /\ Len(pdoc.Errors) = 0
                 THEN "notfound" ELSE "ok")

\* cacheGet(ctx, cacheKey, &pkgs)
QueryGet(p) ==
  /\ pr[p].pc = "Q_get"
  /\ \E ok \in BOOLEAN :
       /\ Outcome(ok)
       /\ LET g == cacheGet(mc[pr[p].qkey], ok)
          IN pr' = [pr EXCEPT ![p] =
               IF g.err = "miss"
                 THEN [@ EXCEPT !.pc = "Q_query", !.item = g.item,
                                !.current = (g.item = "held")]
               ELSE IF g.err = "nil"
                 THEN QFinish([@ EXCEPT !.item = g.item], Val(g.object), "nil")
               ELSE QFinish(@, <<>>, "error")]
  /\ UNCHANGED <<mc, dsDoc, dsPkg, rv, ff>>

\* query.GetAll(ctx, &pkgs)
QueryGetAll(p) ==
  /\ pr[p].pc = "Q_query"
  /\ \E ok \in BOOLEAN :
       /\ Outcome(ok)
       /\ pr' = [pr EXCEPT ![p] =
            IF ~ok THEN QFinish(@, <<>>, "error")
            ELSE [@ EXCEPT !.pkgs = GetAll(pr[p].qroot), !.staleFor = {},
                           !.pc = IF pr[p].item = "nil" THEN "Q_add" ELSE "Q_cas"]]
  /\ UNCHANGED <<mc, dsDoc, dsPkg, rv, ff>>

\* the entry a safe-set of worker p stores: item.Object = pkgs,
\* item.Expiration = time.Hour (package.go:93-94)
ListEntry(p) == Entry(GobEncode(pr[p].pkgs), HourExpiration, pr[p].staleFor)

\* the switch on the error of CompareAndSwap (util.go:61-70): the value
\* cacheSafeSet returns, or "add" for the fall through to memcache.Add
SwapSwitch(err) ==
  IF err = "conflict" THEN "nil"
  ELSE IF err = "notstored" THEN "add"
  ELSE err

\* the error cacheSafeSet returns after memcache.Add (util.go:72-77)
AddSwitch(err) == IF err = "notstored" THEN "nil" ELSE err

\* return from cacheSafeSet with ret, and from queryPackages after it
SafeSetReturn(r, ret) ==
  QFinish([r EXCEPT !.sret = ret], IF ret = "nil" THEN r.pkgs ELSE <<>>, ret)

\* memcache.CompareAndSwap(ctx, item) and the switch on its error
QueryCAS(p) ==
  /\ pr[p].pc = "Q_cas"
  /\ \E ok \in BOOLEAN :
       /\ Outcome(ok)
       /\ LET err == IF ok THEN CASOutcome(mc[pr[p].qkey], pr[p].current) ELSE "error"
              ret == SwapSwitch(err)
              f == [pr EXCEPT ![p] =
                  LET s == [@ EXCEPT !.casSaw = err, !.wfail = @ \/ ~ok,
                                     !.swrote = IF err = "nil" THEN "cas" ELSE @]
                  IN IF ret = "add" THEN [s EXCEPT !.pc = "Q_add"]
                     ELSE SafeSetReturn(s, ret)]
          IN IF err = "nil"
               THEN /\ mc' = [mc EXCEPT ![pr[p].qkey] = Some(ListEntry(p))]
                    /\ pr' = Touch({pr[p].qkey}, f)
               ELSE /\ mc' = mc
                    /\ pr' = f
  /\ UNCHANGED <<dsDoc, dsPkg, rv, ff>>

\* memcache.Add(ctx, item); ErrNotStored is turned into nil
QueryAdd(p) ==
  /\ pr[p].pc = "Q_add"
  /\ \E ok \in BOOLEAN :
       /\ Outcome(ok)
       /\ LET err == IF ok THEN AddOutcome(mc[pr[p].qkey]) ELSE "error"
              f == [pr EXCEPT ![p] =
                  SafeSetReturn([@ EXCEPT !.wfail = @ \/ ~ok,
                                          !.swrote = IF err = "nil" THEN "add" ELSE @],
                                AddSwitch(err))]
          IN IF err = "nil"
               THEN /\ mc' = [mc EXCEPT ![pr[p].qkey] = Some(ListEntry(p))]
                    /\ pr' = Touch({pr[p].qkey}, f)
               ELSE /\ mc' = mc
                    /\ pr' = f
  /\ UNCHANGED <<dsDoc, dsPkg, rv, ff>>

(***************************************************************************)
(* getDoc (part_004:58-132), one step per service call.                    *)
(***************************************************************************)
\* 4. childPackages(c, pdoc.ProjectRoot, importPath); a nil pdoc is a nil
\* dereference.  The locals of steps 2 and 3 are dead from here on.
ChildPackages(r) ==
  IF r.pdoc = None THEN Done(r, "panic")
  ELSE [r EXCEPT !.pc = "Q_get",
                 !.qkey = ProjKey(Val(r.pdoc).ProjectRoot),
                 !.qroot = Some(Val(r.pdoc).ProjectRoot),
                 !.saved = None, !.pkg = None, !.storedPackage = None]

\* 1. Look for doc in cache.
GetDocCacheGet(p) ==
  /\ pr[p].pc = "G_cacheGet"
  /\ \E ok \in BOOLEAN :
       /\ Outcome(ok)
       /\ LET g == cacheGet(mc[DocKey(pr[p].path)], ok)
          IN pr' = [pr EXCEPT ![p] =
               IF g.err = "nil" THEN ChildPackages([@ EXCEPT !.pdoc = g.object, !.hit = TRUE])
               ELSE IF g.err = "miss" THEN [@ EXCEPT !.pc = "G_loadDoc"]
               ELSE Done(@, "err")]
  /\ UNCHANGED <<mc, dsDoc, dsPkg, rv, ff>>

\* a loadDoc whose version test is inverted: the record of the current
\* version is dropped
loadDoc_VersionInverted(entity, ok) ==
  IF ~ok THEN [etag |-> <<>>, err |-> "error", pdoc |-> None]
  ELSE IF entity = None THEN [etag |-> <<>>, err |-> "nil", pdoc |-> None]
  ELSE IF Val(entity).Version = PackageVersion
    THEN [etag |-> <<>>, err |-> "nil", pdoc |-> None]
  ELSE LET pd == GobDecode(Val(entity).Gob)
       IN [etag |-> pd.Etag, err |-> "nil", pdoc |-> Some(pd)]

\* a loadDoc that reports the ETag of a record of another version
loadDoc_OutdatedEtag(entity, ok) ==
  IF ~ok THEN [etag |-> <<>>, err |-> "error", pdoc |-> None]
  ELSE IF entity = None THEN [etag |-> <<>>, err |-> "nil", pdoc |-> None]
  ELSE LET pd == GobDecode(Val(entity).Gob)
       IN IF Val(entity).Version # PackageVersion
            THEN [etag |-> pd.Etag, err |-> "nil", pdoc |-> None]
          ELSE [etag |-> pd.Etag, err |-> "nil", pdoc |-> Some(pd)]

\* loadDoc (package.go:53-68): [etag, err, pdoc]
loadDoc(entity, ok) ==
  IF ~ok THEN [etag |-> <<>>, err |-> "error", pdoc |-> None]
  ELSE IF entity = None THEN [etag |-> <<>>, err |-> "nil", pdoc |-> None]
  ELSE IF Val(entity).Version # PackageVersion
    THEN [etag |-> <<>>, err |-> "nil", pdoc |-> None]
  ELSE LET pd == GobDecode(Val(entity).Gob)
       IN [etag |-> pd.Etag, err |-> "nil", pdoc |-> Some(pd)]

\* 2. Look for doc in store.
GetDocLoad(p) ==
  /\ pr[p].pc = "G_loadDoc"
  /\ \E ok \in BOOLEAN :
       /\ Outcome(ok)
       /\ LET l == loadDoc(dsDoc[pr[p].path], ok)
          IN pr' = [pr EXCEPT ![p] =
               IF l.err # "nil" THEN Done(@, "err")
               ELSE [@ EXCEPT !.pc = "G_fetch", !.saved = l.pdoc, !.etag = l.etag,
                              !.dread = @ \cup {<<"Doc", pr[p].path>>}]]
  /\ UNCHANGED <<mc, dsDoc, dsPkg, rv, ff>>

\* return from updatePackage with a nil error, back in getDoc
UpdateReturn(r) ==
  IF r.gerr = "nil" THEN [r EXCEPT !.pc = "G_cacheSet"]
  ELSE Done(r, "notfound")

\* 3. doc.Get and the switch on its error; the cases nil and
\* ErrPackageNotFound enter updatePackage, whose first lines project pkg
GetDocFetch(p) ==
  /\ pr[p].pc = "G_fetch"
  /\ \E r \in RevisionsOf(pr[p].path), inTree \in BOOLEAN, netOK \in BOOLEAN :
       LET switch(res) ==
             LET s == [pr[p] EXCEPT !.gerr = res.err, !.net = netOK,
                                    !.rev = IF res.err \in {"nil", "notmodified"} THEN r
                                            ELSE "none"]
             IN IF res.err = "nil"
                  THEN [s EXCEPT !.pdoc = res.pdoc, !.pc = "U_doc",
                                 !.pkg = Projection(s.path, res.pdoc)]
                ELSE IF res.err = "notfound"
                  THEN [s EXCEPT !.pdoc = None, !.pc = "U_doc",
                                 !.pkg = Projection(s.path, None)]
                ELSE IF res.err = "notmodified"
                  THEN ChildPackages([s EXCEPT !.pdoc = s.saved])
                ELSE IF s.saved = None THEN Done(s, "err")
                ELSE ChildPackages([s EXCEPT !.pdoc = s.saved])
       IN pr' = [pr EXCEPT ![p] =
                   switch(Get(pr[p].path, pr[p].etag, Upstream(r, inTree, netOK)))]
  /\ UNCHANGED <<mc, dsDoc, dsPkg, faults, rv, ff>>

(***************************************************************************)
(* updatePackage (package.go:127-264), one step per service call.          *)
(***************************************************************************)
\* Update doc blob: Delete when pkg is nil, else the size check and Put;
\* an error of either is logged
UpdateDoc(p) ==
  /\ pr[p].pc = "U_doc"
  /\ \E ok \in BOOLEAN :
       /\ Outcome(ok)
       /\ IF pr[p].pkg = None
            THEN /\ dsDoc' = IF ok THEN [dsDoc EXCEPT ![pr[p].path] = None] ELSE dsDoc
                 /\ pr' = [pr EXCEPT ![p] =
                      [@ EXCEPT !.pc = "U_get", !.docWrite = "delete",
                                !.wfail = @ \/ ~ok]]
            ELSE LET pdoc == StoredForm(Val(pr[p].pdoc))
                 IN /\ dsDoc' = IF ok THEN [dsDoc EXCEPT ![pr[p].path] = Some(DocEntity(pdoc))]
                                ELSE dsDoc
                    /\ pr' = [pr EXCEPT ![p] =
                         [@ EXCEPT !.pc = "U_get", !.pdoc = Some(pdoc),
                                   !.docWrite = "put", !.wfail = @ \/ ~ok]]
  /\ UNCHANGED <<mc, dsPkg, rv, ff>>

\* a switch that writes the index entity without comparing
Decide_NoCompare(err, pkg, storedPackage) ==
  IF err = "nosuch" THEN (IF pkg # None THEN "put" ELSE "skip")
  ELSE IF err = "nil" THEN (IF pkg = None THEN "delete" ELSE "put")
  ELSE "skip"

\* a switch that takes every error of datastore.Get for ErrNoSuchEntity
Decide_ErrorIsNoSuch(err, pkg, storedPackage) ==
  IF err \in {"nosuch", "error"} THEN (IF pkg # None THEN "put" ELSE "skip")
  ELSE IF pkg = None THEN "delete"
  ELSE IF ~equal(Val(pkg), Val(storedPackage)) THEN "put"
  ELSE "skip"

\* the branch the switch on the error of datastore.Get takes
\* (package.go:225-250): "put", "delete" or "skip"
Decide(err, pkg, storedPackage) ==
  IF err = "nosuch" THEN (IF pkg # None THEN "put" ELSE "skip")
  ELSE IF err = "nil"
    THEN (IF pkg = None THEN "delete"
          ELSE IF ~equal(Val(pkg), Val(storedPackage)) THEN "put"
          ELSE "skip")
  ELSE "skip"

\* datastore.Get of the stored package, up to the write decided on
UpdateGet(p) ==
  /\ pr[p].pc = "U_get"
  /\ \E ok \in BOOLEAN :
       /\ Outcome(ok)
       /\ LET keyName == KeyName(pr[p].path, pr[p].pdoc)
              entity == dsPkg[keyName]
              err == IF ~ok THEN "error" ELSE IF entity = None THEN "nosuch" ELSE "nil"
              d == Decide(err, pr[p].pkg, entity)
          IN pr' = [pr EXCEPT ![p] =
               LET s == [@ EXCEPT !.getErr = err, !.decided = d,
                                  !.storedPackage = IF err = "nil" THEN entity ELSE None,
                                  !.invalidate = (d # "skip"),
                                  !.dread = IF ok THEN @ \cup {<<"Package", keyName>>}
                                            ELSE @]
               IN IF d = "put" THEN [s EXCEPT !.pc = "U_put"]
                  ELSE IF d = "delete" THEN [s EXCEPT !.pc = "U_delete"]
                  ELSE UpdateReturn(s)]
  /\ UNCHANGED <<mc, dsDoc, dsPkg, rv, ff>>

\* history: an index write of worker p makes every list computed before it
\* stale, those cached and those in the hands of a reader
MarkStale(p, f) ==
  [q \in Procs |-> IF f[q].pc \in {"Q_cas", "Q_add"}
                     THEN [f[q] EXCEPT !.staleFor = @ \cup {p}] ELSE f[q]]

MarkStaleEntries(p) ==
  [k \in CacheKeys |->
     IF k \in ListKeys /\ mc[k] # None /\ ~IsTombstone(Val(mc[k]).Value)
       THEN Some([Val(mc[k]) EXCEPT !.stale = @ \cup {p}])
       ELSE mc[k]]

\* datastore.Put(ctx, key, pkg) or datastore.Delete(ctx, key) of the index
\* entity; an error is logged
IndexWrite(p, entity, what) ==
  \E ok \in BOOLEAN :
    /\ Outcome(ok)
    /\ LET f == [pr EXCEPT ![p] =
                   [@ EXCEPT !.pc = "U_clear", !.pkgWrite = what, !.wfail = @ \/ ~ok]]
       IN IF ok
            THEN /\ dsPkg' = [dsPkg EXCEPT ![KeyName(pr[p].path, pr[p].pdoc)] = entity]
                 /\ mc' = MarkStaleEntries(p)
                 /\ pr' = MarkStale(p, f)
            ELSE /\ dsPkg' = dsPkg
                 /\ mc' = mc
                 /\ pr' = f
    /\ UNCHANGED <<dsDoc, rv, ff>>

UpdatePut(p) ==
  /\ pr[p].pc = "U_put"
  /\ IndexWrite(p, pr[p].pkg, "put")

UpdateDelete(p) ==
  /\ pr[p].pc = "U_delete"
  /\ IndexWrite(p, None, "delete")

\* the keys updatePackage invalidates (package.go:255-258)
ClearKeys(pdoc) ==
  IF pdoc # None THEN {packageListKey, ProjKey(Val(pdoc).ProjectRoot)}
  ELSE {packageListKey}

\* an invalidation that removes the keys instead of writing tombstones
cacheClear_Delete(keys) == [k \in CacheKeys |-> IF k \in keys THEN None ELSE mc[k]]

\* cacheClear (util.go:80-86): one SetMulti of a tombstone per key
cacheClear(keys) ==
  [k \in CacheKeys |->
     IF k \in keys THEN Some(Entry(Tombstone, TombstoneExpiration, {})) ELSE mc[k]]

\* Update memcache.
UpdateClear(p) ==
  /\ pr[p].pc = "U_clear"
  /\ \E ok \in BOOLEAN :
       /\ Outcome(ok)
       /\ LET keys == ClearKeys(pr[p].pdoc)
          IN IF ok
               THEN /\ mc' = cacheClear(keys)
                    /\ pr' = Touch(keys, Disturb(keys, [pr EXCEPT ![p] =
                                UpdateReturn([@ EXCEPT !.clrKeys = keys])]))
               ELSE /\ mc' = mc
                    /\ pr' = [pr EXCEPT ![p] = Done([@ EXCEPT !.wfail = TRUE], "err")]
  /\ UNCHANGED <<dsDoc, dsPkg, rv, ff>>

\* cacheSet (util.go:39-47) of the documentation record: item.Object = pdoc,
\* item.Expiration = time.Hour
GetDocCacheSet(p) ==
  /\ pr[p].pc = "G_cacheSet"
  /\ \E ok \in BOOLEAN :
       /\ Outcome(ok)
       /\ IF ok
            THEN /\ mc' = [mc EXCEPT ![DocKey(pr[p].path)] =
                      Some(Entry(GobEncode(Val(pr[p].pdoc)), HourExpiration, {}))]
                 /\ pr' = [pr EXCEPT ![p] = ChildPackages(@)]
            ELSE /\ mc' = mc
                 /\ pr' = [pr EXCEPT ![p] = Done([@ EXCEPT !.wfail = TRUE], "err")]
  /\ UNCHANGED <<dsDoc, dsPkg, rv, ff>>

(***************************************************************************)
(* packageReloadHandler (part_004:207-216) and removeDoc (package.go:70).  *)
(***************************************************************************)
\* memcache.Delete(c, cacheKey); its error is only logged
ReloadDelete(p) ==
  /\ pr[p].pc = "R_delete"
  /\ \E ok \in BOOLEAN :
       /\ Outcome(ok)
       /\ mc' = IF ok THEN [mc EXCEPT ![DocKey(pr[p].path)] = None] ELSE mc
       /\ pr' = [pr EXCEPT ![p] = [@ EXCEPT !.pc = "R_removeDoc"]]
  /\ UNCHANGED <<dsDoc, dsPkg, rv, ff>>

ReloadRemoveDoc(p) ==
  /\ pr[p].pc = "R_removeDoc"
  /\ \E ok \in BOOLEAN :
       /\ Outcome(ok)
       /\ dsDoc' = IF ok THEN [dsDoc EXCEPT ![pr[p].path] = None] ELSE dsDoc
       /\ pr' = [pr EXCEPT ![p] = Done(@, "ok")]
  /\ UNCHANGED <<mc, dsPkg, rv, ff>>

(***************************************************************************)
(* Requests and expiry.                                                    *)
(***************************************************************************)
\* a worker takes a request
Start(p, r) ==
  /\ pr[p].pc = "idle"
  /\ pr' = [pr EXCEPT ![p] = r]
  /\ UNCHANGED <<mc, dsDoc, dsPkg, faults, rv, ff>>

\* packageHandler: getDoc(c, importPath)
StartGetDoc(p, path) == Start(p, [Fresh("getDoc", "G_cacheGet") EXCEPT !.path = path])

\* packageIndexHandler: queryPackages(c, packageListKey, Hide = false)
StartIndex(p) == Start(p, [Fresh("index", "Q_get") EXCEPT !.qkey = packageListKey])

StartReload(p, path) == Start(p, [Fresh("reload", "R_delete") EXCEPT !.path = path])

\* the expiration of the entry under key k elapses.  A behaviour spans less
\* than an hour: of the two expirations the code sets, the two minutes of a
\* tombstone elapse within it, the hour of a list or a record does not (the
\* initial state, an empty cache, is the state after such an hour)
Expire(k) ==
  /\ mc[k] # None
  /\ Val(mc[k]).Expiration < HourExpiration
  /\ mc' = [mc EXCEPT ![k] = None]
  /\ pr' = [q \in Procs |-> [Touch({k}, pr)[q] EXCEPT !.clrKeys = @ \ {k}]]
  /\ UNCHANGED <<dsDoc, dsPkg, faults, rv, ff>>

Next ==
  \/ \E p \in Procs :
       \/ \E path \in Paths : StartGetDoc(p, path) \/ StartReload(p, path)
       \/ StartIndex(p)
       \/ GetDocCacheGet(p) \/ GetDocLoad(p) \/ GetDocFetch(p)
       \/ UpdateDoc(p) \/ UpdateGet(p) \/ UpdatePut(p) \/ UpdateDelete(p)
       \/ UpdateClear(p) \/ GetDocCacheSet(p)
       \/ QueryGet(p) \/ QueryGetAll(p) \/ QueryCAS(p) \/ QueryAdd(p)
       \/ ReloadDelete(p) \/ ReloadRemoveDoc(p)
  \/ \E k \in CacheKeys : Expire(k)

Spec == Init /\ [][Next]_vars

(***************************************************************************)
(* The site after a change of doc.PackageVersion: the Doc entities in the  *)
(* store were written by the build before the change and carry its version *)
(* tag; the cache is empty, since the cache keys hold the version too.     *)
(***************************************************************************)
InitOld ==
  LET Outdated == <<"0">>
      docs == [p \in Paths |-> ResolvedDoc(p, "r1")]
      stores(pdoc) ==
        /\ dsDoc = [p \in AllPaths |->
                      IF p \in Paths
                        THEN Some([Version |-> Outdated, Gob |-> GobEncode(StoredForm(pdoc[p]))])
                      ELSE None]
        /\ dsPkg = [k \in KeyNames |->
                      IF \E p \in Paths : k = KeyName(p, Some(pdoc[p]))
                        THEN LET p == CHOOSE p \in Paths : k = KeyName(p, Some(pdoc[p]))
                             IN Projection(p, Some(pdoc[p]))
                      ELSE None]
  IN /\ mc = [k \in CacheKeys |-> None]
     /\ stores(docs)
     /\ faults = 0
     /\ pr = [p \in Procs |-> Fresh("idle", "idle")]
     /\ rv = NoCall
     /\ ff = NoFetch

SpecOld == InitOld /\ [][Next]_vars

(***************************************************************************)
(* The site serving a standard-library path: getDoc requests for it, and   *)
(* stores that are empty or hold the path as an earlier resolution left it *)
(* (its index entity under the key name with the leading slash).           *)
(***************************************************************************)
InitStd ==
  /\ mc = [k \in CacheKeys |-> None]
  /\ EmptyStores \/ IndexedStores(StandardPackages, "r1")
  /\ faults = 0
  /\ pr = [p \in Procs |-> Fresh("idle", "idle")]
  /\ rv = NoCall
  /\ ff = NoFetch

NextStd ==
  \/ \E p \in Procs :
       \/ \E path \in StandardPackages : StartGetDoc(p, path)
       \/ GetDocCacheGet(p) \/ GetDocLoad(p) \/ GetDocFetch(p)
       \/ UpdateDoc(p) \/ UpdateGet(p) \/ UpdatePut(p) \/ UpdateDelete(p)
       \/ UpdateClear(p) \/ GetDocCacheSet(p)
       \/ QueryGet(p) \/ QueryGetAll(p) \/ QueryCAS(p) \/ QueryAdd(p)
  \/ \E k \in CacheKeys : Expire(k)

SpecStd == InitStd /\ [][NextStd]_vars

(***************************************************************************)
(* The resolver on its own: one call of Get, getStatic, getDynamic or      *)
(* getMeta with an import path, a saved ETag and a network drawn from the  *)
(* sets below.  The stores and the workers stay as they start.             *)
(***************************************************************************)
PathDyn == <<"e","x","a","m","p","l","e",".","o","r","g","/","p","/","s","u","b">>
RootDyn == <<"e","x","a","m","p","l","e",".","o","r","g","/","p">>

\* the responses of the servers of example.org to the discovery requests
\* for PathDyn and RootDyn, one network per entry.  A token is
\* [Local, Attr, kind], an attribute [Local, Value].
Sites ==
  LET StartTag(local, attrs) == [Local |-> local, Attr |-> attrs, kind |-> "start"]
      EndTag(local) == [Local |-> local, Attr |-> <<>>, kind |-> "end"]
      Text == [Local |-> <<>>, Attr |-> <<>>, kind |-> "text"]
      Attribute(local, value) == [Local |-> local, Value |-> value]
      \* <meta name="go-import" content="...">
      GoImport(content) ==
        StartTag(<<"m","e","t","a">>, <<Attribute(<<"n","a","m","e">>, <<"g","o","-","i","m","p","o","r","t">>), Attribute(<<"c","o","n","t","e","n","t">>, content)>>)
      \* a document with the elements in its head and those in its body
      Document(head, body) ==
        <<StartTag(<<"h","t","m","l">>, <<>>), StartTag(<<"h","e","a","d">>, <<>>),
          StartTag(<<"m","e","t","a">>, <<Attribute(<<"c","h","a","r","s","e","t">>, <<"u","t","f","-","8">>)>>), Text>>
        \o head
        \o <<EndTag(<<"h","e","a","d">>), StartTag(<<"b","o","d","y">>, <<>>)>> \o body \o <<EndTag(<<"b","o","d","y">>)>>
      Response(status, tokens) == [tokens |-> tokens, status |-> status]
      DynUri(importPath) == importPath \o <<"?","g","o","-","g","e","t","=","1">>
      \* both pages of the project, each answering status over the schemes
      Site(schemes, status, sub, root) ==
        [k \in {<<sc, DynUri(ip)>> : sc \in schemes, ip \in {PathDyn, RootDyn}} |->
           Response(status, IF k[2] = DynUri(PathDyn) THEN sub ELSE root)]
      Both == {"https", "http"}
      \* the declarations a page may carry
      ToGithub == GoImport(<<"e","x","a","m","p","l","e",".","o","r","g","/","p"," ","g","i","t"," ","h","t","t","p","s",":","/","/","g","i","t","h","u","b",".","c","o","m","/","U","/","r">>)
      ToGithubUpper ==
        StartTag(<<"M","E","T","A">>, <<Attribute(<<"N","A","M","E">>, <<"g","o","-","i","m","p","o","r","t">>),
                       Attribute(<<"C","o","n","t","e","n","t">>, <<"e","x","a","m","p","l","e",".","o","r","g","/","p"," "," ","g","i","t"," "," "," ","h","t","t","p","s",":","/","/","g","i","t","h","u","b",".","c","o","m","/","U","/","r">>)>>)
      ToGithubQ == GoImport(<<"e","x","a","m","p","l","e",".","o","r","g","/","p"," ","g","i","t"," ","h","t","t","p","s",":","/","/","g","i","t","h","u","b",".","c","o","m","/","U","/","q">>)
      ToOther == GoImport(<<"e","x","a","m","p","l","e",".","o","r","g","/","p"," ","g","i","t"," ","h","t","t","p","s",":","/","/","e","x","a","m","p","l","e",".","o","r","g","/","r","e","p","o">>)
      ToBare == GoImport(<<"e","x","a","m","p","l","e",".","o","r","g","/","p"," ","g","i","t"," ","g","i","t","h","u","b",".","c","o","m","/","U","/","r">>)
      ToHost == GoImport(<<"e","x","a","m","p","l","e",".","o","r","g","/","p"," ","g","i","t"," ","h","t","t","p","s",":","/","/","g","i","t","h","u","b",".","c","o","m">>)
      OfRoot == GoImport(<<"e","x","a","m","p","l","e",".","o","r","g"," ","g","i","t"," ","h","t","t","p","s",":","/","/","g","i","t","h","u","b",".","c","o","m","/","U","/","r">>)
      OfOtherPath == GoImport(<<"e","x","a","m","p","l","e",".","o","r","g","/","q"," ","g","i","t"," ","h","t","t","p","s",":","/","/","g","i","t","h","u","b",".","c","o","m","/","U","/","q">>)
      OfPartialSegment == GoImport(<<"e","x","a","m","p","l","e",".","o","r","g","/","p","/","s","u"," ","g","i","t"," ","h","t","t","p","s",":","/","/","g","i","t","h","u","b",".","c","o","m","/","U","/","r">>)
      TwoFields == GoImport(<<"e","x","a","m","p","l","e",".","o","r","g","/","p"," ","g","i","t">>)
      Description ==
        StartTag(<<"m","e","t","a">>, <<Attribute(<<"n","a","m","e">>, <<"d","e","s","c","r","i","p","t","i","o","n">>),
                       Attribute(<<"c","o","n","t","e","n","t">>, <<"e","x","a","m","p","l","e",".","o","r","g","/","p"," ","g","i","t"," ","h","t","t","p","s",":","/","/","g","i","t","h","u","b",".","c","o","m","/","U","/","r">>)>>)
  IN
  <<\* no server
    <<>>,
    \* exactly one matching declaration
    Site(Both, 200, Document(<<ToGithub>>, <<>>), Document(<<ToGithub>>, <<>>)),
    Site(Both, 200, Document(<<OfOtherPath, ToGithubUpper, TwoFields>>, <<>>),
         Document(<<ToGithub, Description>>, <<>>)),
    Site(Both, 200, Document(<<ToGithub>>, <<ToOther>>), Document(<<ToGithub>>, <<>>)),
    \* two matching declarations
    Site(Both, 200, Document(<<ToGithub, ToOther>>, <<>>), Document(<<ToGithub>>, <<>>)),
    Site(Both, 200, Document(<<ToGithub, OfRoot>>, <<>>), Document(<<ToGithub>>, <<>>)),
    \* none
    Site(Both, 200, Document(<<OfOtherPath, TwoFields, OfPartialSegment, Description>>, <<>>),
         Document(<<ToGithub>>, <<>>)),
    Site(Both, 200, Document(<<>>, <<ToGithub>>), Document(<<ToGithub>>, <<>>)),
    \* plain http only, and https answering 404
    Site({"http"}, 200, Document(<<ToGithub>>, <<>>), Document(<<ToGithub>>, <<>>)),
    Site({"https"}, 404, Document(<<ToGithub>>, <<>>), Document(<<ToGithub>>, <<>>))
      @@ Site({"http"}, 200, Document(<<ToOther>>, <<>>), Document(<<ToOther>>, <<>>)),
    Site({"https"}, 404, Document(<<ToGithub>>, <<>>), Document(<<ToGithub>>, <<>>)),
    \* the page of the project root declares another root, or none
    Site(Both, 200, Document(<<ToGithub>>, <<>>), Document(<<OfRoot>>, <<>>)),
    Site(Both, 200, Document(<<ToGithub>>, <<>>), Document(<<>>, <<>>)),
    \* the page of the import path names another repository than the page
    \* of the project root
    Site(Both, 200, Document(<<ToGithubQ>>, <<>>), Document(<<ToGithub>>, <<>>)),
    \* the repository is on no static host, has no scheme, is a bare host
    Site(Both, 200, Document(<<ToOther>>, <<>>), Document(<<ToOther>>, <<>>)),
    Site(Both, 200, Document(<<ToBare>>, <<>>), Document(<<ToBare>>, <<>>)),
    Site(Both, 200, Document(<<ToHost>>, <<>>), Document(<<ToHost>>, <<>>))>>

Webs ==
  {[Upstream("r1", inTree, netOK) EXCEPT !.pages = Sites[i]] :
     inTree \in BOOLEAN, netOK \in BOOLEAN, i \in 1..Len(Sites)}

TestPaths ==
  {PathStd, PathSub, PathDyn, RootDyn,
   <<"f","o","o","b","a","r">>, <<"f","o","o",".">>, <<".","b","a","r">>, <<"f","a","v","i","c","o","n",".","i","c","o">>, <<"e","x","a","m","p","l","e",".","o","r","g","/","p","/","_","s","u","b">>,
   <<"e","x","a","m","p","l","e",".","o","r","g","/","p","/","t","e","s","t","d","a","t","a">>, <<"e","x","a","m","p","l","e",".","o","r","g","/","/","p">>, <<"e","x","a","m","p","l","e",".","o","r","g","/","p"," ","s","u","b">>,
   <<"g","i","t","h","u","b",".","c","o","m","/","U">>, <<"g","i","t","h","u","b",".","c","o","m","/","U","/","r">>, <<"g","i","t","h","u","b",".","c","o","m","/","U","/","r","/",".","g","i","t">>, <<"g","i","t","h","u","b",".","c","o","m","/","U","/","r",":","x">>,
   <<"c","o","d","e",".","g","o","o","g","l","e",".","c","o","m","/","p","/","r",".","s","/","s","u","b">>, <<"c","o","d","e",".","g","o","o","g","l","e",".","c","o","m","/","x">>,
   <<"b","i","t","b","u","c","k","e","t",".","o","r","g","/","U","/","r">>, <<"b","i","t","b","u","c","k","e","t",".","o","r","g","/","U">>,
   <<"l","a","u","n","c","h","p","a","d",".","n","e","t","/","p">>, <<"l","a","u","n","c","h","p","a","d",".","n","e","t","/","~","u","/","+","j","u","n","k","/","p","/","s","u","b">>, <<"l","a","u","n","c","h","p","a","d",".","n","e","t","/","~","u">>,
   <<"g","i","t",".","g","i","t","o","r","i","o","u","s",".","o","r","g","/","U","/","r",".","g","i","t">>, <<"g","i","t",".","g","i","t","o","r","i","o","u","s",".","o","r","g","/","U","/","r">>}

\* no saved ETag, the current one, one without a marker and one with the
\* marker of another format version
TestEtags ==
  {<<>>, versionPrefix \o RevEtag("r1"), RevEtag("r1"), <<"0","-">> \o RevEtag("r1")}

InitGet ==
  /\ mc = [k \in CacheKeys |-> None]
  /\ EmptyStores
  /\ faults = 0
  /\ pr = [p \in Procs |-> Fresh("idle", "idle")]
  /\ rv \in {[NoCall EXCEPT !.importPath = importPath, !.etag = etag, !.web = web] :
               importPath \in TestPaths, etag \in TestEtags, web \in Webs}
  /\ ff = NoFetch

Call(op, out) ==
  /\ rv.op = "none"
  /\ rv' = [rv EXCEPT !.op = op, !.out = out]
  /\ UNCHANGED <<mc, dsDoc, dsPkg, faults, pr, ff>>

CallGet == Call("Get", Get(rv.importPath, rv.etag, rv.web))

CallGetStatic == Call("getStatic", getStatic(rv.importPath, rv.etag, rv.web))

CallGetDynamic == Call("getDynamic", getDynamic(rv.importPath, rv.etag, rv.web))

CallGetMeta == Call("getMeta", getMeta(rv.importPath, rv.web))

\* the adapter of the service the import path belongs to, called the way
\* getStatic calls it
CallAdapter ==
  /\ FirstService(rv.importPath, 1) # 0
  /\ FindStringSubmatch(services[FirstService(rv.importPath, 1)].name, rv.importPath) # None
  /\ Call("adapter",
          serviceDoc(services[FirstService(rv.importPath, 1)].name,
                     Val(FindStringSubmatch(services[FirstService(rv.importPath, 1)].name,
                                            rv.importPath)),
                     rv.etag, rv.web))

\* the caller saves the ETag of the record Get returned and passes it to its
\* next Get of the same import path
CallGetAgain ==
  /\ rv.op = "Get"
  /\ rv.out.err = "nil"
  /\ rv' = [rv EXCEPT !.etag = Val(rv.out.pdoc).Etag, !.op = "GetAgain",
                      !.out = Get(rv.importPath, Val(rv.out.pdoc).Etag, rv.web)]
  /\ UNCHANGED <<mc, dsDoc, dsPkg, faults, pr, ff>>

NextGet ==
  CallGet \/ CallGetStatic \/ CallGetDynamic \/ CallGetMeta \/ CallGetAgain \/ CallAdapter

SpecGet == InitGet /\ [][NextGet]_vars

(***************************************************************************)
(* The fetcher (part_002).  A response is None when client.Do fails, else  *)
(* [status, Etag, readOK]: Etag is the header as the server sent it and    *)
(* readOK says that reading the body succeeds.  An error is a tuple:       *)
(* <<"nil">>, <<"notfound">>, <<"notmodified">>, <<"read">> (the error of  *)
(* ioutil.ReadAll), <<"badurl">> (the error of http.NewRequest) or a       *)
(* GetError <<"GetError", host, cause>>.                                   *)
(***************************************************************************)
\* the host of the URL of file i
FileHost(i) == IF i = MaxFiles THEN "raw2" ELSE "raw1"

\* GetError{req.URL.Host, err}: cause is <<"connect">> for the error of
\* client.Do, <<"read">> for that of ReadAll and <<"status", code>> for
\* fmt.Errorf("get %s -> %d", url, resp.StatusCode)
GetError(host, cause) == <<"GetError", host, cause>>

\* the responses of the test server: every status the helpers tell apart
\* and one more, the Etag header absent, bare, quoted and a lone quote
Responses ==
  LET ServerEtag == <<"e","1">>
      EtagHeaders == {<<>>, ServerEtag, <<"\"">> \o ServerEtag \o <<"\"">>, <<"\"">>}
      Response(status, header, readOK) ==
        [Etag |-> header, status |-> status, readOK |-> readOK]
  IN {None} \cup {Some(Response(status, header, readOK)) :
                   status \in {200, 304, 404, 500}, header \in EtagHeaders,
                   readOK \in BOOLEAN}

\* the body of a response that was read, and what ReadAll returns of it
\* when it fails
Body == <<"body">>
Partial == <<"bo">>

\* httpGet: [body, err], body the open response body
httpGet(host, resp) ==
  IF resp = None THEN [err |-> GetError(host, <<"connect">>), body |-> None]
  ELSE IF Val(resp).status = 200 THEN [err |-> <<"nil">>, body |-> Some(Body)]
  ELSE IF Val(resp).status = 404 THEN [err |-> <<"notfound">>, body |-> None]
  ELSE [err |-> GetError(host, <<"status", Val(resp).status>>), body |-> None]

\* httpGetBytesNoneMatch: [p, etag, err]; Unquote is the value of the Etag
\* header without its quotes, empty when it is not quoted
httpGetBytesNoneMatch(host, resp) ==
  LET result(p, etag, err) == [p |-> p, etag |-> etag, err |-> err]
      Unquote(etag) ==
        IF Len(etag) >= 2 /\ etag[1] = "\"" /\ etag[Len(etag)] = "\""
          THEN SubSeq(etag, 2, Len(etag) - 1)
          ELSE <<>>
  IN IF resp = None THEN result(None, <<>>, GetError(host, <<"connect">>))
     ELSE CASE Val(resp).status = 200 ->
                 IF Val(resp).readOK THEN result(Some(Body), Unquote(Val(resp).Etag), <<"nil">>)
                 ELSE result(Some(Partial), Unquote(Val(resp).Etag), <<"read">>)
            [] Val(resp).status = 404 -> result(None, <<>>, <<"notfound">>)
            [] Val(resp).status = 304 -> result(None, <<>>, <<"notmodified">>)
            [] OTHER -> result(None, <<>>, GetError(host, <<"status", Val(resp).status>>))

\* an httpGetBytesCompare that compares the saved ETag with the bytes
\* themselves and returns them as the ETag
httpGetBytesCompare_NoHash(host, resp, savedEtag) ==
  LET result(p, etag, err) == [p |-> p, etag |-> etag, err |-> err]
  IN IF httpGet(host, resp).err # <<"nil">> THEN result(None, <<>>, httpGet(host, resp).err)
     ELSE IF ~Val(resp).readOK THEN result(None, <<>>, <<"read">>)
     ELSE result(httpGet(host, resp).body, Val(httpGet(host, resp).body),
                 IF savedEtag = Val(httpGet(host, resp).body) THEN <<"notmodified">> ELSE <<"nil">>)

\* httpGetBytesCompare (part_002:150-162): [p, etag, err].  The bytes are
\* those httpGetBytes returns (part_002:101-109): the body of a response
\* of status 200, read to its end.  etag is the MD5 of the bytes in
\* hexadecimal digits.
httpGetBytesCompare(host, resp, savedEtag) ==
  LET result(p, etag, err) == [p |-> p, etag |-> etag, err |-> err]
      md5hex(p) ==
        CASE p = Body -> <<"8","4","1","a","2","d","6","8","9","a","d","8","6","b","d","1","6","1","1","4","4","7","4","5","3","c","2","2","c","6","f","c">>
          [] p = Partial -> <<"a","d","7","5","3","2","d","5","b","3","8","6","0","a","4","0","8","f","b","e","0","1","f","9","4","5","5","d","c","a","3","6">>
      compared(p, etag) ==
        result(Some(p), etag, IF savedEtag = etag THEN <<"notmodified">> ELSE <<"nil">>)
  IN IF httpGet(host, resp).err # <<"nil">> THEN result(None, <<>>, httpGet(host, resp).err)
     ELSE IF ~Val(resp).readOK THEN result(None, <<>>, <<"read">>)
     ELSE compared(Val(httpGet(host, resp).body), md5hex(Val(httpGet(host, resp).body)))

\* what a task of fetchFiles sends on the channel and stores in
\* files[i].data; valid says that http.NewRequest accepts the URL
fetchTask(i, valid, resp) ==
  IF ~valid THEN [err |-> <<"badurl">>, data |-> None]
  ELSE IF resp = None THEN [err |-> GetError(FileHost(i), <<"connect">>), data |-> None]
  ELSE IF Val(resp).status # 200
    THEN [err |-> GetError(FileHost(i), <<"status", Val(resp).status>>), data |-> None]
  ELSE IF ~Val(resp).readOK
    THEN [err |-> GetError(FileHost(i), <<"read">>), data |-> Some(Partial)]
  ELSE [err |-> <<"nil">>, data |-> Some(Body)]

(***************************************************************************)
(* ff is [op, n, pc, err, data, main, got, ret, resp, out].  For a run of  *)
(* fetchFiles over n files: pc[i] is the position of the task of file i    *)
(* ("none", "start", "send" when it is at its send on the channel, "done"  *)
(* when it has returned), err[i] what it sends, data[i] files[i].data,     *)
(* main the position of fetchFiles itself ("idle", "recv", "returned"),    *)
(* got the number of values it has received, ret what it returned.  For a  *)
(* call of a GET helper: op its name, resp the response, out its result.   *)
(* The channel is unbuffered: a send completes together with the receive.  *)
(***************************************************************************)
\* nothing has been called
InitIdle ==
  /\ mc = [k \in CacheKeys |-> None]
  /\ EmptyStores
  /\ faults = 0
  /\ pr = [p \in Procs |-> Fresh("idle", "idle")]
  /\ rv = NoCall
  /\ ff = NoFetch

\* fetchFiles is called with n files and starts their tasks
FetchStart(n) ==
  /\ ff.op = "none"
  /\ ff' = [ff EXCEPT !.op = "fetchFiles", !.n = n, !.main = "recv",
                      !.pc = [i \in 1..MaxFiles |-> IF i <= n THEN "start" ELSE "none"]]
  /\ UNCHANGED <<mc, dsDoc, dsPkg, faults, pr, rv>>

\* the task of file i up to its send
FetchTask(i) ==
  /\ ff.pc[i] = "start"
  /\ \E valid \in BOOLEAN, resp \in Responses :
       ff' = [ff EXCEPT !.pc[i] = "send",
                        !.err[i] = fetchTask(i, valid, resp).err,
                        !.data[i] = fetchTask(i, valid, resp).data]
  /\ UNCHANGED <<mc, dsDoc, dsPkg, faults, pr, rv>>

\* a loop that receives from every task whatever they send
afterReceive_CollectAll(err) == "recv"

\* if err := <-ch; err != nil { return err }: where fetchFiles is after it
\* has received err
afterReceive(err) == IF err # <<"nil">> THEN "returned" ELSE "recv"

\* err := <-ch in the loop of fetchFiles, from the task of file i
FetchReceive(i) ==
  /\ ff.main = "recv"
  /\ ff.got < ff.n
  /\ ff.pc[i] = "send"
  /\ ff' = [ff EXCEPT !.pc[i] = "done", !.got = @ + 1,
                      !.main = afterReceive(ff.err[i]),
                      !.ret = IF afterReceive(ff.err[i]) = "returned" THEN ff.err[i] ELSE @]
  /\ UNCHANGED <<mc, dsDoc, dsPkg, faults, pr, rv>>

\* return nil after the loop
FetchReturn ==
  /\ ff.main = "recv"
  /\ ff.got = ff.n
  /\ ff' = [ff EXCEPT !.main = "returned", !.ret = <<"nil">>]
  /\ UNCHANGED <<mc, dsDoc, dsPkg, faults, pr, rv>>

\* a call of httpGet
CallHttpGet ==
  /\ ff.op = "none"
  /\ \E resp \in Responses :
       ff' = [ff EXCEPT !.op = "httpGet", !.resp = resp, !.out = Some(httpGet("api", resp))]
  /\ UNCHANGED <<mc, dsDoc, dsPkg, faults, pr, rv>>

\* a call of httpGetBytesNoneMatch
CallHttpGetBytesNoneMatch ==
  /\ ff.op = "none"
  /\ \E resp \in Responses :
       ff' = [ff EXCEPT !.op = "httpGetBytesNoneMatch", !.resp = resp,
                        !.out = Some(httpGetBytesNoneMatch("api", resp))]
  /\ UNCHANGED <<mc, dsDoc, dsPkg, faults, pr, rv>>

\* a call of httpGetBytesCompare with a saved ETag: none, the hash of the
\* body or of a part of it, the body itself, the Etag header of the server
CallHttpGetBytesCompare ==
  /\ ff.op = "none"
  /\ rv.op = "none"
  /\ \E resp \in Responses :
       \E savedEtag \in {<<>>, <<"8","4","1","a","2","d","6","8","9","a","d","8","6","b","d","1","6","1","1","4","4","7","4","5","3","c","2","2","c","6","f","c">>,
                         <<"a","d","7","5","3","2","d","5","b","3","8","6","0","a","4","0","8","f","b","e","0","1","f","9","4","5","5","d","c","a","3","6">>,
                         Body, <<"e", "1">>} :
         /\ ff' = [ff EXCEPT !.op = "httpGetBytesCompare", !.resp = resp]
         /\ rv' = [rv EXCEPT !.etag = savedEtag, !.op = "httpGetBytesCompare",
                             !.out = httpGetBytesCompare("api", resp, savedEtag)]
  /\ UNCHANGED <<mc, dsDoc, dsPkg, faults, pr>>

NextFetch ==
  \/ \E n \in 0..MaxFiles : FetchStart(n)
  \/ \E i \in 1..MaxFiles : FetchTask(i)
  \/ \E i \in 1..MaxFiles : FetchReceive(i)
  \/ FetchReturn
  \/ CallHttpGet
  \/ CallHttpGetBytesNoneMatch
  \/ CallHttpGetBytesCompare

SpecFetch == InitIdle /\ [][NextFetch]_vars

\* the scheduler runs every task and fetchFiles itself whenever they can
\* take a step
SpecFetchFair ==
  /\ SpecFetch
  /\ \A i \in 1..MaxFiles : WF_vars(FetchTask(i)) /\ WF_vars(FetchReceive(i))
  /\ WF_vars(FetchReturn)

(***************************************************************************)
(* updatePackage's projection of a record on its index entity, applied on  *)
(* its own to records of every kind: IndexInputs are pairs of an import    *)
(* path and the project root the resolver gives its records ("" for the    *)
(* standard library); the last but one is a package at the root of a       *)
(* domain, the last the legacy mirror of the standard library.             *)
(***************************************************************************)
IndexInputs ==
  {<<<<"g","i","t","h","u","b",".","c","o","m","/","U","/","r","/","S","u","b">>, <<"g","i","t","h","u","b",".","c","o","m","/","U","/","r">>>>,
   <<<<"g","i","t","h","u","b",".","c","o","m","/","U","/","r">>, <<"g","i","t","h","u","b",".","c","o","m","/","U","/","r">>>>,
   <<<<"f","m","t">>, <<>>>>,
   <<<<"c","o","d","e",".","g","o","o","g","l","e",".","c","o","m","/","p","/","g","o","x","/","c","m","d">>, <<"c","o","d","e",".","g","o","o","g","l","e",".","c","o","m","/","p","/","g","o","x">>>>,
   <<<<"E","x","a","m","p","l","e",".","o","r","g">>, <<"E","x","a","m","p","l","e",".","o","r","g">>>>,
   <<<<"c","o","d","e",".","g","o","o","g","l","e",".","c","o","m","/","p","/","g","o","/","f","m","t">>, <<"c","o","d","e",".","g","o","o","g","l","e",".","c","o","m","/","p","/","g","o">>>>,
   <<<<"c","o","d","e",".","g","o","o","g","l","e",".","c","o","m","/","p","/","g","o","/","f","m","t">>, <<>>>>}

\* the records buildDoc can make for an import path and project root
IndexDocs(in) ==
  {[ImportPath |-> in[1], ProjectRoot |-> in[2], Etag |-> <<"e","1">>,
    Name |-> name, IsCmd |-> isCmd, Synopsis |-> synopsis, Doc |-> doc, Errors |-> <<>>,
    Consts |-> exports[1], Funcs |-> exports[2], Types |-> exports[3], Vars |-> exports[4],
    Files |-> <<40>>] :
     name \in {PathSplitFile(in[1]), <<"M","a","i","n">>},
     isCmd \in BOOLEAN,
     synopsis \in {<<>>, <<"S">>},
     doc \in {<<>>, <<"a">>, <<"a",".">>, <<"a","."," ","b">>, <<".">>, <<"a",".","b",".">>},
     exports \in [1..4 -> {<<>>, <<120>>}]}

\* updatePackage(ctx, importPath, pdoc) as far as pkg (package.go:129-173)
CallProjection ==
  /\ rv.op = "none"
  /\ \E in \in IndexInputs :
       \E pdoc \in IndexDocs(in) :
         rv' = [rv EXCEPT !.importPath = in[1], !.op = "updatePackage",
                          !.out = [pdoc |-> pdoc, pkg |-> Val(Projection(in[1], Some(pdoc)))]]
  /\ UNCHANGED <<mc, dsDoc, dsPkg, faults, pr, ff>>

SpecIndex == InitIdle /\ [][CallProjection]_vars

(***************************************************************************)
(* updatePackage called again and again for one import path by one caller  *)
(* at a time, every call of the datastore and of the cache succeeding: the *)
(* whole of package.go:127-264 is one step.  pdoc is nil or one of the     *)
(* records buildDoc can make for the path.                                 *)
(***************************************************************************)
CallUpdatePackage ==
  \E pdocM \in {None} \cup {Some(d) : d \in {x \in IndexDocs(<<PathSub, RootR>>) :
                                              x.Doc = <<"a", ".", " ", "b">>}} :
    LET importPath == PathSub
        pkg == Projection(importPath, pdocM)
        keyName == KeyName(importPath, pdocM)
        decided == Decide(IF dsPkg[keyName] = None THEN "nosuch" ELSE "nil",
                          pkg, dsPkg[keyName])
    IN /\ dsDoc' = [dsDoc EXCEPT ![importPath] =
                      IF pkg = None THEN None
                      ELSE Some(DocEntity(StoredForm(Val(pdocM))))]
       /\ dsPkg' = [dsPkg EXCEPT ![keyName] =
                      IF decided = "put" THEN pkg
                      ELSE IF decided = "delete" THEN None
                      ELSE @]
       /\ mc' = IF decided # "skip" THEN cacheClear(ClearKeys(pdocM)) ELSE mc
       /\ rv' = [rv EXCEPT !.importPath = importPath, !.op = "updateStored",
                           !.out = [pdoc |-> pdocM, pkg |-> pkg]]
       /\ UNCHANGED <<faults, pr, ff>>

SpecUpdate == InitIdle /\ [][CallUpdatePackage]_vars

(***************************************************************************)
(* ValidRemotePath (doc.go:219-265) applied on its own to import paths put *)
(* together from first segments and following segments of every kind: the  *)
(* paths of TestValidRemotePath (launchpad.go:242-255) are among them.     *)
(***************************************************************************)
CallValidRemotePath ==
  LET hosts ==
        {<<"f","o","o","b","a","r">>, <<"f","o","o",".">>, <<".","b","a","r">>,
         <<"f","a","v","i","c","o","n",".","i","c","o">>,
         <<"c","a","m","l","i","s","t","o","r","e",".","o","r","g">>,
         <<"g","i","t","h","u","b",".","c","o","m">>, <<"a",".","b","_","c">>, <<"a",".","b",".">>,
         <<"a",".",".","b">>, <<"a","-","b",".","c","0">>, <<"x",".","g","o">>, <<"a",".","b"," ","c">>, <<>>}
      segments ==
        {<<"u","s","e","r">>, <<"r","e","p","o">>, <<"t","e","s","t","d","a","t","a">>,
         <<"_","i","g","n","o","r","e">>, <<".","i","g","n","o","r","e">>, <<>>, <<"x">>,
         <<"t","e","s","t","d","a","t","a","2">>, <<"a","_","b">>, <<"a",".","b">>}
      tails == {<<>>} \cup {<<s>> : s \in segments}
                 \cup {<<s1, s2>> : s1 \in segments, s2 \in segments}
      RECURSIVE join(_)
      join(parts) ==
        IF Len(parts) = 1 THEN parts[1]
        ELSE parts[1] \o <<"/">> \o join(Tail(parts))
      inputs ==
        {join(<<h>> \o pre \o tail) :
           h \in hosts, pre \in {<<>>, <<<<"u","s","e","r">>, <<"r","e","p","o">>>>}, tail \in tails}
  IN /\ rv.op = "none"
     /\ \E importPath \in inputs :
          rv' = [rv EXCEPT !.importPath = importPath, !.op = "ValidRemotePath",
                           !.out = [valid |-> ValidRemotePath(importPath)]]
     /\ UNCHANGED <<mc, dsDoc, dsPkg, faults, pr, ff>>

SpecPath == InitIdle /\ [][CallValidRemotePath]_vars

(***************************************************************************)
(* What the adapters make of the manifests of a repository, applied on its *)
(* own: the choice of the tree and of the ETag from the refs list of       *)
(* GitHub (part_003:55-65), and the choice of the files from the tree of   *)
(* GitHub and from the archives of Launchpad and Gitorious.                *)
(***************************************************************************)
MaxRefs == 3
MaxNodes == 3

\* a githubTree whose loop does not end at the go1 ref: a master later in
\* the list replaces the ETag
githubTree_NoBreak(refs) ==
  LET go1(ref) ==
        \/ ref.Ref = <<"r","e","f","s","/","h","e","a","d","s","/","g","o","1">>
        \/ ref.Ref = <<"r","e","f","s","/","t","a","g","s","/","g","o","1">>
      RECURSIVE loop(_, _, _)
      loop(i, etag, treeName) ==
        IF i > Len(refs) THEN [etag |-> etag, treeName |-> treeName]
        ELSE IF go1(refs[i])
          THEN loop(i + 1, refs[i].Sha \o SubSeq(refs[i].Ref, 5, Len(refs[i].Ref)), "go1")
        ELSE IF refs[i].Ref = <<"r","e","f","s","/","h","e","a","d","s","/","m","a","s","t","e","r">>
          THEN loop(i + 1, refs[i].Sha, treeName)
        ELSE loop(i + 1, etag, treeName)
  IN loop(1, <<>>, "master")

\* the loop of getGithubDoc over the refs list: [treeName, etag].  A ref is
\* [Ref, Sha]; the loop ends at the first go1 ref.
githubTree(refs) ==
  LET go1(ref) ==
        \/ ref.Ref = <<"r","e","f","s","/","h","e","a","d","s","/","g","o","1">>
        \/ ref.Ref = <<"r","e","f","s","/","t","a","g","s","/","g","o","1">>
      RECURSIVE loop(_, _)
      loop(i, etag) ==
        IF i > Len(refs) THEN [etag |-> etag, treeName |-> "master"]
        ELSE IF go1(refs[i])
          THEN [etag |-> refs[i].Sha \o SubSeq(refs[i].Ref, Len(<<"r","e","f","s">>) + 1, Len(refs[i].Ref)),
                treeName |-> "go1"]
        ELSE IF refs[i].Ref = <<"r","e","f","s","/","h","e","a","d","s","/","m","a","s","t","e","r">>
          THEN loop(i + 1, refs[i].Sha)
        ELSE loop(i + 1, etag)
  IN loop(1, <<>>)

\* getGithubDoc reads a refs list: up to MaxRefs refs of different names,
\* in any order, each at one of two commits
CallGithubTree ==
  LET names ==
        {<<"r","e","f","s","/","h","e","a","d","s","/","m","a","s","t","e","r">>,
         <<"r","e","f","s","/","h","e","a","d","s","/","g","o","1">>,
         <<"r","e","f","s","/","t","a","g","s","/","g","o","1">>,
         <<"r","e","f","s","/","h","e","a","d","s","/","d","e","v">>,
         <<"r","e","f","s","/","t","a","g","s","/","m","a","s","t","e","r">>}
      all == {[Ref |-> n, Sha |-> s] : n \in names, s \in {<<"a">>, <<"b">>}}
      lists ==
        {l \in UNION {[1..n -> all] : n \in 0..MaxRefs} :
           \A i \in 1..Len(l) : \A j \in 1..Len(l) : i # j => l[i].Ref # l[j].Ref}
  IN /\ rv.op = "none"
     /\ \E refs \in lists :
          rv' = [rv EXCEPT !.op = "githubTree",
                           !.out = [refs |-> refs, selected |-> githubTree(refs)]]
     /\ UNCHANGED <<mc, dsDoc, dsPkg, faults, pr, ff>>

\* a docFiles that hands over every file it counts, those of the
\* subdirectories too
docFiles_Below(adapter, entries, dir) ==
  LET isDocFile(p) ==
        LET n == PathSplitFile(p)
        IN HasSuffix(n, <<".","g","o">>) /\ Len(n) > 0 /\ n[1] # "_" /\ n[1] # "."
      prefix ==
        CASE adapter = "github" -> <<>>
          [] adapter = "launchpad" -> <<"+","b","r","a","n","c","h","/","r","/">>
          [] adapter = "gitorious" -> <<"U","-","r","/">> \o dir
      name(e) == SubSeq(e.Path, Len(prefix) + 1, Len(e.Path))
      counted(e) ==
        CASE adapter = "github" ->
               e.Type = "blob" /\ isDocFile(e.Path) /\ HasPrefix(e.Path, dir)
          [] adapter = "launchpad" ->
               HasPrefix(e.Path, prefix) /\ isDocFile(name(e)) /\ HasPrefix(name(e), dir)
          [] adapter = "gitorious" ->
               HasPrefix(e.Path, prefix) /\ isDocFile(name(e))
      file(e) ==
        CASE adapter = "github" -> [name |-> PathSplitFile(e.Path), path |-> e.Path]
          [] adapter = "launchpad" -> [name |-> PathSplitFile(name(e)), path |-> name(e)]
          [] adapter = "gitorious" -> [name |-> name(e), path |-> dir \o name(e)]
      files(sel) == [i \in 1..Len(sel) |-> file(sel[i])]
  IN [err |-> IF \E i \in 1..Len(entries) : counted(entries[i]) THEN "nil" ELSE "notfound",
      files |-> files(SelectSeq(entries, counted))]

\* the loops of getGithubDoc (part_003:87-107), getLaunchpadDoc
\* (launchpad.go:73-107) and getGitoriousDoc (gitorious.go:52-85) over the
\* entries of the tree or of the archive: [err, files].  An entry is
\* [Path, Type], Path its name in the manifest; a file is [name, path],
\* path what its browseURL says after the tree.
docFiles(adapter, entries, dir) ==
  LET isDocFile(p) ==
        LET n == PathSplitFile(p)
        IN HasSuffix(n, <<".","g","o">>) /\ Len(n) > 0 /\ n[1] # "_" /\ n[1] # "."
      PathSplitDir(p) == SubSeq(p, 1, Len(p) - Len(PathSplitFile(p)))
      prefix ==
        CASE adapter = "github" -> <<>>
          [] adapter = "launchpad" -> <<"+","b","r","a","n","c","h","/","r","/">>
          [] adapter = "gitorious" -> <<"U","-","r","/">> \o dir
      name(e) == SubSeq(e.Path, Len(prefix) + 1, Len(e.Path))
      counted(e) ==
        CASE adapter = "github" ->
               ~(e.Type # "blob" \/ ~isDocFile(e.Path) \/ ~HasPrefix(e.Path, dir))
          [] adapter = "launchpad" ->
               HasPrefix(e.Path, prefix) /\ ~(~isDocFile(name(e)) \/ ~HasPrefix(name(e), dir))
          [] adapter = "gitorious" ->
               HasPrefix(e.Path, prefix) /\ isDocFile(name(e))
      taken(e) ==
        /\ counted(e)
        /\ CASE adapter = "github" -> PathSplitDir(e.Path) = dir
             [] adapter = "launchpad" -> PathSplitDir(name(e)) = dir
             [] adapter = "gitorious" -> PathSplitDir(name(e)) = <<>>
      file(e) ==
        CASE adapter = "github" -> [name |-> PathSplitFile(e.Path), path |-> e.Path]
          [] adapter = "launchpad" -> [name |-> PathSplitFile(name(e)), path |-> name(e)]
          [] adapter = "gitorious" -> [name |-> name(e), path |-> dir \o name(e)]
      files(sel) == [i \in 1..Len(sel) |-> file(sel[i])]
  IN [err |-> IF \E i \in 1..Len(entries) : counted(entries[i]) THEN "nil" ELSE "notfound",
      files |-> files(SelectSeq(entries, taken))]

\* an adapter reads the manifest of a repository of up to MaxNodes entries
\* for the directory m3 of an import path: tree is the repository, each
\* entry under its path from the root, and manifest(e) the entry as the
\* tree of GitHub or the archive of Launchpad or Gitorious names it
CallDocFiles ==
  LET paths ==
        {<<"a",".","g","o">>, <<"s","u","b","/","b",".","g","o">>,
         <<"s","u","b","/","d","/","c",".","g","o">>,
         <<"s","u","b","/","_","x",".","g","o">>, <<"s","u","b","/",".","y",".","g","o">>,
         <<"s","u","b","x","/","d",".","g","o">>, <<"s","u","b","/","R","E","A","D","M","E">>,
         <<"s","u","b","/",".","g","o">>, <<"s","u","b","/",".","h","/","f",".","g","o">>}
      nodes ==
        {[Path |-> p, Type |-> "blob"] : p \in paths}
          \cup {[Path |-> <<"s","u","b","/","z",".","g","o">>, Type |-> "tree"]}
      trees ==
        {t \in UNION {[1..n -> nodes] : n \in 0..MaxNodes} :
           \A i \in 1..Len(t) : \A j \in 1..Len(t) : i # j => t[i] # t[j]}
      normalizeDir(s) ==
        IF Len(s) > 0 /\ s[1] = "/" THEN SubSeq(s, 2, Len(s)) \o <<"/">> ELSE s
      manifest(adapter, e) ==
        CASE adapter = "github" -> e
          [] adapter = "launchpad" ->
               [Path |-> <<"+","b","r","a","n","c","h","/","r","/">> \o e.Path
                           \o (IF e.Type = "tree" THEN <<"/">> ELSE <<>>),
                Type |-> e.Type]
          [] adapter = "gitorious" ->
               [Path |-> <<"U","-","r","/">> \o e.Path
                           \o (IF e.Type = "tree" THEN <<"/">> ELSE <<>>),
                Type |-> e.Type]
      read(adapter, dir, tree) ==
        docFiles(adapter, [i \in 1..Len(tree) |-> manifest(adapter, tree[i])], dir)
  IN /\ rv.op = "none"
     /\ \E adapter \in {"github", "launchpad", "gitorious"} :
          \E m3 \in {<<>>, <<"/","s","u","b">>, <<"/","s","u","b","/","d">>} :
            \E tree \in trees :
              rv' = [rv EXCEPT !.op = "docFiles",
                               !.out = [dir |-> normalizeDir(m3),
                                        result |-> read(adapter, normalizeDir(m3), tree),
                                        adapter |-> adapter, tree |-> tree]]
     /\ UNCHANGED <<mc, dsDoc, dsPkg, faults, pr, ff>>

SpecTree == InitIdle /\ [][CallGithubTree \/ CallDocFiles]_vars


(***************************************************************************)
(* Properties.                                                             *)
(***************************************************************************)
\* two finished workers whose safe sets of the same key both started from an
\* absent key (the item cacheGet made has a nil Value) and between whose
\* cacheGet and now the key was not invalidated, with no failed write call
BothObservedAbsent(p, q) ==
  /\ p # q
  /\ pr[p].pc = "done" /\ pr[q].pc = "done"
  /\ pr[p].qkey = pr[q].qkey
  /\ pr[p].item = "nil" /\ pr[q].item = "nil"
  /\ pr[p].sret # "none" /\ pr[q].sret # "none"
  /\ ~pr[p].wfail /\ ~pr[q].wfail
  /\ ~pr[p].disturbed /\ ~pr[q].disturbed

\* C1: when two concurrent cacheSafeSet calls on one key both start from an
\* absent key, both return nil, exactly one of them stored its value (by
\* memcache.Add) and the key holds that value.
C1_AddRaceStoresOne ==
  \A p, q \in Procs :
    BothObservedAbsent(p, q) =>
      /\ pr[p].sret = "nil" /\ pr[q].sret = "nil"
      /\ (pr[p].swrote = "add") # (pr[q].swrote = "add")
      /\ pr[p].swrote # "cas" /\ pr[q].swrote # "cas"
      /\ mc[pr[p].qkey] # None
      /\ LET w == IF pr[p].swrote = "add" THEN p ELSE q
         IN Val(mc[pr[p].qkey]).Value = GobEncode(pr[w].pkgs)

\* the race of C1 has happened: q's memcache.Add found the list p had added
C1_Witness ==
  \E p, q \in Procs :
    /\ BothObservedAbsent(p, q)
    /\ pr[p].swrote = "add" /\ pr[q].swrote = "no"
    /\ Len(pr[p].pkgs) > 0


\* two finished workers that raced to safe-set one key, p with the entry it
\* had observed (item.Value non-nil): no invalidation of the key came between
\* their cacheGet and now, and no write call failed
RacedWithObserved(p, q) ==
  /\ p # q
  /\ pr[p].pc = "done" /\ pr[q].pc = "done"
  /\ pr[p].qkey = pr[q].qkey
  /\ pr[p].item = "held" /\ pr[q].item \in {"held", "nil"}
  /\ pr[p].sret # "none" /\ pr[q].sret # "none"
  /\ ~pr[p].wfail /\ ~pr[q].wfail
  /\ ~pr[p].disturbed /\ ~pr[q].disturbed

\* the state part of C2
C2_AtMostOneWriter ==
  /\ \A p \in Procs :
       (pr[p].pc \in {"Q_query", "Q_cas"} /\ pr[p].item = "held" /\ pr[p].current) =>
         (mc[pr[p].qkey] # None /\ IsTombstone(Val(mc[pr[p].qkey]).Value))
  /\ \A p, q \in Procs :
       RacedWithObserved(p, q) =>
         /\ pr[p].sret = "nil" /\ pr[q].sret = "nil"
         /\ ~(pr[p].swrote # "no" /\ pr[q].swrote # "no")

\* the step part of C2: what the compare-and-swap call of worker p does
C2_SwapStep(p) ==
  LET k == pr[p].qkey
  IN /\ (pr[p].pc = "Q_cas" /\ pr'[p].pc # "Q_cas" /\ faults' = faults) =>
          IF mc[k] = None
            THEN mc' = mc /\ pr'[p].pc = "Q_add"
          ELSE IF pr[p].current
            THEN /\ mc' = [mc EXCEPT ![k] = Some(ListEntry(p))]
                 /\ pr'[p].pc = "done" /\ pr'[p].sret = "nil"
          ELSE /\ mc' = mc
               /\ pr'[p].pc = "done" /\ pr'[p].sret = "nil"
     /\ (pr[p].item = "held" /\ pr[p].pc # "Q_add" /\ pr'[p].pc = "Q_add") =>
          (pr[p].pc = "Q_cas" /\ mc[k] = None)

\* C2: a cacheSafeSet that holds an observed entry writes only by
\* compare-and-swap against that entry: when the key holds another entry by
\* then, the call stores nothing, leaves that entry as it is and returns nil;
\* when the key is absent (expired) it goes on to memcache.Add and only from
\* there; of two racing writers at most one takes effect and both return nil.
C2_SwapOnlyAgainstObserved ==
  []C2_AtMostOneWriter /\ [][\A p \in Procs : C2_SwapStep(p)]_vars

\* both cases of C2 have happened: p's compare-and-swap replaced the
\* tombstone it had observed, q's met a conflict and stored nothing
C2_Witness ==
  \E p, q \in Procs :
    /\ RacedWithObserved(p, q)
    /\ pr[q].item = "held"
    /\ pr[p].swrote = "cas" /\ pr[q].swrote = "no"

\* the fallback of C2 has happened: the observed tombstone had expired, the
\* compare-and-swap was not stored and memcache.Add stored the list
C2_WitnessFallback ==
  \E p \in Procs :
    /\ pr[p].pc = "done" /\ pr[p].item = "held" /\ pr[p].swrote = "add"


\* the entry under key k is a list (not a tombstone)
HoldsList(k) == mc[k] # None /\ ~IsTombstone(Val(mc[k]).Value)

C3_WitnessFresh ==
  \E p, q \in Procs :
    /\ p # q
    /\ pr[q].pc = "done" /\ p \in pr[q].staleFor
    /\ pr[q].qkey \in pr[p].clrKeys
    /\ HoldsList(pr[q].qkey)


\* the statement of C4 as the specification words it: between the completion
\* of a cacheClear of key k and the expiry of the tombstone, every cacheGet
\* of k reports a miss
C4_EveryGetMisses ==
  \A p \in Procs : \A k \in pr[p].clrKeys :
    cacheGet(mc[k], TRUE).err = "miss"

\* C4 (amended): between the completion of worker p's cacheClear of key k and
\* the expiry of the tombstone the key holds an entry; while that entry is
\* the tombstone, cacheGet reports a miss and decodes nothing; a cacheGet
\* that does not miss returns a list a reader stored over the tombstone by
\* compare-and-swap, computed after the invalidation, never the list from
\* before it.
C4_MissOrListAfterClear ==
  \A p \in Procs : \A k \in pr[p].clrKeys :
    LET g == cacheGet(mc[k], TRUE)
    IN /\ mc[k] # None
       /\ IsTombstone(Val(mc[k]).Value) =>
            (g.err = "miss" /\ g.object = None /\ g.item = "held")
       /\ g.err # "miss" =>
            (g.err = "nil" /\ p \notin Val(mc[k]).stale)

\* the case of C4 has happened: after p's cacheClear a reader q got a miss
\* from the tombstone, which is still stored
C4_Witness ==
  \E p, q \in Procs :
    /\ p # q
    /\ pr[q].qkey \in pr[p].clrKeys
    /\ pr[q].pc = "Q_query" /\ pr[q].item = "held" /\ pr[q].current
    /\ pr[q].disturbed = FALSE

\* the other case of C4: a reader's list has replaced the tombstone
C4_WitnessReplaced ==
  \E p \in Procs : \E k \in pr[p].clrKeys : HoldsList(k)


\* two finished getDoc calls of one import path that both returned a record,
\* with no failed service call
BothResolved(p, q) ==
  /\ p # q
  /\ pr[p].op = "getDoc" /\ pr[q].op = "getDoc"
  /\ pr[p].pc = "done" /\ pr[q].pc = "done"
  /\ pr[p].path = pr[q].path
  /\ pr[p].ret = "ok" /\ pr[q].ret = "ok"
  /\ faults = 0

\* C5: after two concurrent getDoc calls of one import path have both
\* completed, the documentation record the ephemeral tier holds for the path
\* is the record the durable tier holds.
C5_CachedDocIsStoredDoc ==
  \A p, q \in Procs :
    BothResolved(p, q) =>
      LET cached == mc[DocKey(pr[p].path)]
          stored == dsDoc[pr[p].path]
      IN cached # None =>
           /\ stored # None
           /\ GobDecode(Val(cached).Value) = GobDecode(Val(stored).Gob)


\* what C6 says of one step and one key: a step that writes a tombstone
\* writes it with the two-minute expiration, and an entry leaves the cache
\* only by the elapse of its expiration, never by a delete
C6_TombstoneNotDelete(k) ==
  /\ (mc'[k] # mc[k] /\ mc'[k] # None /\ IsTombstone(Val(mc'[k]).Value)) =>
       Val(mc'[k]).Expiration = TombstoneExpiration
  /\ (mc[k] # None /\ mc'[k] = None) => Expire(k)

\* C6: every invalidation of an ephemeral-tier key writes a one-byte
\* tombstone with the two-minute expiration; no invalidation path deletes a
\* cache key.
C6_InvalidationNeverDeletes ==
  [][\A k \in CacheKeys : C6_TombstoneNotDelete(k)]_vars


\* what C7 says of the steps of worker p: the datastore.Get of the stored
\* index entity writes nothing and decides; Put is decided exactly when a
\* package was projected and no entity is stored or the stored one differs
\* in Synopsis, Hide, IsCmd or the sequence IndexTokens; Delete exactly when
\* nothing was projected and an entity is stored; a failed Get decides
\* neither; the index entity changes only in a step so decided, and the
\* invalidation is entered only from such a step
C7_ReadCompareWrite(p) ==
  LET stored == dsPkg[KeyName(pr[p].path, pr[p].pdoc)]
      pkg == pr[p].pkg
      unequal == /\ stored # None /\ pkg # None
                 /\ \/ Val(pkg).Synopsis # Val(stored).Synopsis
                    \/ Val(pkg).Hide # Val(stored).Hide
                    \/ Val(pkg).IsCmd # Val(stored).IsCmd
                    \/ Val(pkg).IndexTokens # Val(stored).IndexTokens
      read == pr[p].pc = "U_get" /\ pr'[p].pc # "U_get"
  IN /\ read => dsPkg' = dsPkg
     /\ (read /\ faults' = faults) =>
          /\ pr'[p].pc = "U_put" <=> (pkg # None /\ (stored = None \/ unequal))
          /\ pr'[p].pc = "U_delete" <=> (pkg = None /\ stored # None)
     /\ (read /\ faults' # faults) => pr'[p].pc \notin {"U_put", "U_delete"}
     /\ (pr[p].pc # "U_put" /\ pr'[p].pc = "U_put") => read
     /\ (pr[p].pc # "U_delete" /\ pr'[p].pc = "U_delete") => read
     /\ (pr[p].pc # "U_clear" /\ pr'[p].pc = "U_clear") =>
          pr[p].pc \in {"U_put", "U_delete"}

\* C7: updatePackage reads the stored index entity first and writes the
\* index entity if and only if none is stored or the stored one is unequal
\* to the projected one; the list caches are invalidated only where the
\* index entity is added, changed or deleted.
C7_IndexWriteIffChanged ==
  [][/\ \A p \in Procs : C7_ReadCompareWrite(p)
     /\ dsPkg' # dsPkg => \E p \in Procs : pr[p].pc \in {"U_put", "U_delete"}
     /\ (\E k \in ListKeys : mc'[k] # mc[k] /\ mc'[k] # None
                              /\ IsTombstone(Val(mc'[k]).Value)) =>
          \E p \in Procs : pr[p].pc = "U_clear"]_vars

\* three cases of C7 have happened in three resolutions of one history: the
\* stored entity differed from the projection and was written anew
C7_Witness ==
  \E p \in Procs :
    /\ pr[p].pc = "U_clear" /\ pr[p].pkgWrite = "put"
    /\ pr[p].storedPackage # None /\ pr[p].pkg # None
    /\ Val(pr[p].storedPackage).Synopsis # Val(pr[p].pkg).Synopsis
    /\ dsPkg[pr[p].path] = pr[p].pkg

\* the stored entity was equal, up to the doc text, and nothing was written
C7_WitnessEqual ==
  \E p \in Procs :
    /\ pr[p].pc = "G_cacheSet" /\ pr[p].pkgWrite = "none"
    /\ pr[p].storedPackage # None /\ pr[p].pkg # None


\* worker p is back in getDoc from an updatePackage run for a record that
\* differs from the record loadDoc returned in its doc text only (and in the
\* ETag that identifies the revision), while the index entity read by the
\* run was the projection of that previous record
DocTextOnlyChange(p) ==
  /\ pr[p].pc = "G_cacheSet"
  /\ pr[p].saved # None /\ pr[p].pdoc # None
  /\ Val(pr[p].saved).Doc # Val(pr[p].pdoc).Doc
  /\ [Val(pr[p].saved) EXCEPT !.Doc = Val(pr[p].pdoc).Doc,
                              !.Etag = Val(pr[p].pdoc).Etag] = Val(pr[p].pdoc)
  /\ pr[p].storedPackage = Projection(pr[p].path, pr[p].saved)

\* the statement of C8 as the specification words it: such a run performs
\* no durable-tier write
C8_NoDurableWrite ==
  \A p \in Procs :
    DocTextOnlyChange(p) =>
      /\ equal(Val(Projection(pr[p].path, pr[p].saved)), Val(pr[p].pkg))
      /\ pr[p].docWrite = "none" /\ pr[p].pkgWrite = "none"

\* C8 (amended): an updatePackage run for a record that differs from the
\* previously stored one in its doc text only projects an equal index
\* record; it writes no index entity and invalidates no list, and it does
\* write the Doc entity with the new record.
C8_DocTextOnlyWritesDocOnly ==
  \A p \in Procs :
    DocTextOnlyChange(p) =>
      /\ equal(Val(Projection(pr[p].path, pr[p].saved)), Val(pr[p].pkg))
      /\ pr[p].pkgWrite = "none"
      /\ ~pr[p].invalidate /\ pr[p].clrKeys = {}
      /\ pr[p].docWrite = "put"

\* the case of C8 has happened, and the Doc entity holds the new doc text
C8_Witness ==
  \E p \in Procs :
    /\ DocTextOnlyChange(p)
    /\ pr[p].pkgWrite = "none" /\ ~pr[p].wfail
    /\ dsDoc[pr[p].path] = Some(DocEntity(Val(pr[p].pdoc)))
    /\ dsPkg[pr[p].path] = pr[p].storedPackage


\* worker p has called doc.Get with the ETag a successful resolution of the
\* revision now upstream had saved, and the requests got through
SavedEtagIsCurrent(p) ==
  /\ pr[p].op = "getDoc"
  /\ pr[p].rev # "none" /\ pr[p].net
  /\ pr[p].etag = versionPrefix \o RevEtag(pr[p].rev)

C10_WriteFailureIsReturned ==
  \A p \in Procs :
    (pr[p].op = "getDoc" /\ pr[p].pc = "done" /\ pr[p].wfail) => pr[p].ret # "ok"


\* the state part of C11: a getDoc that has issued a write of the Doc entity
\* or of the index entity has read that entity before
C11_WrittenKeysWereRead ==
  \A p \in Procs :
    pr[p].op = "getDoc" =>
      /\ pr[p].docWrite # "none" => <<"Doc", pr[p].path>> \in pr[p].dread
      /\ pr[p].pkgWrite # "none" =>
           <<"Package", KeyName(pr[p].path, pr[p].pdoc)>> \in pr[p].dread

\* the step part of C11 for worker p: its write of the Doc entity and its
\* write of the index entity come after its read of the same key; its index
\* write puts no tombstone and is followed by the cacheClear; the cacheClear
\* comes after the index write was issued and writes no entity
C11_Step(p) ==
  LET docStep == pr[p].pc = "U_doc" /\ pr'[p].pc # "U_doc"
      pkgStep == pr[p].pc \in {"U_put", "U_delete"} /\ pr'[p].pc # pr[p].pc
      clearStep == pr[p].pc = "U_clear" /\ pr'[p].pc # "U_clear"
      tombstoned(m, k) == m[k] # None /\ IsTombstone(Val(m[k]).Value)
  IN /\ docStep => <<"Doc", pr[p].path>> \in pr[p].dread
     /\ pkgStep =>
          /\ <<"Package", KeyName(pr[p].path, pr[p].pdoc)>> \in pr[p].dread
          /\ pr[p].pkgWrite = "none" /\ pr'[p].pkgWrite # "none"
          /\ pr'[p].pc = "U_clear"
          /\ \A k \in CacheKeys : tombstoned(mc', k) = tombstoned(mc, k)
     /\ clearStep =>
          /\ pr[p].pkgWrite # "none"
          /\ dsDoc' = dsDoc /\ dsPkg' = dsPkg
          /\ faults' = faults =>
               \A k \in ClearKeys(pr[p].pdoc) : tombstoned(mc', k)

\* C11: within one getDoc, every Put or Delete of a durable-tier entity comes
\* after a datastore.Get of the same key by the same getDoc, and cacheClear
\* is issued after the index Put or Delete it follows, never before: no step
\* other than that cacheClear puts a tombstone, and no step of a getDoc other
\* than the two writes of updatePackage changes the durable tier.
C11_ReadBeforeWriteBeforeClear ==
  /\ []C11_WrittenKeysWereRead
  /\ [][/\ \A p \in Procs : C11_Step(p)
        /\ dsPkg' # dsPkg =>
             \E p \in Procs : pr[p].pc \in {"U_put", "U_delete"} /\ pr'[p].pc = "U_clear"
        /\ dsDoc' # dsDoc =>
             \E p \in Procs : /\ pr[p].pc \in {"U_doc", "R_removeDoc"}
                              /\ pr'[p].pc # pr[p].pc
        /\ (\E k \in CacheKeys : /\ mc'[k] # None /\ IsTombstone(Val(mc'[k]).Value)
                                  /\ ~(mc[k] # None /\ IsTombstone(Val(mc[k]).Value))) =>
             \E p \in Procs : /\ pr[p].pc = "U_clear" /\ pr'[p].pc # "U_clear"
                              /\ pr[p].pkgWrite # "none"]_vars

\* the case of C11 has happened: updatePackage has returned to getDoc after
\* the reads, the write of the Doc entity, the write of the index entity and
\* the cacheClear, in this order
C11_Witness ==
  \E p \in Procs :
    /\ pr[p].pc = "G_cacheSet"
    /\ pr[p].docWrite = "put" /\ pr[p].pkgWrite = "put" /\ ~pr[p].wfail
    /\ pr[p].dread = {<<"Doc", pr[p].path>>, <<"Package", pr[p].path>>}
    /\ pr[p].clrKeys = {packageListKey, ProjKey(RootR)}
    /\ dsPkg[pr[p].path] = pr[p].pkg


\* what C12 says of the steps of worker p: loadDoc hands getDoc the record
\* the Doc entity of the import path holds, if it holds one; a doc.Get that
\* ends in a transport error makes getDoc go on to the child packages with
\* that record when there is one, and return the error when there is none
C12_Step(p) ==
  LET entity == dsDoc[pr[p].path]
      loaded == pr[p].pc = "G_loadDoc" /\ pr'[p].pc = "G_fetch"
      failed == /\ pr[p].pc = "G_fetch" /\ pr'[p].pc # "G_fetch"
                /\ pr'[p].gerr = "transport"
  IN /\ loaded =>
          pr'[p].saved = IF entity = None THEN None
                         ELSE Some(GobDecode(Val(entity).Gob))
     /\ failed =>
          IF pr[p].saved # None
            THEN /\ pr'[p].pc = "Q_get" /\ pr'[p].ret = "none"
                 /\ pr'[p].pdoc = pr[p].saved
                 /\ pr'[p].qkey = ProjKey(Val(pr[p].saved).ProjectRoot)
            ELSE pr'[p].pc = "done" /\ pr'[p].ret = "err"

\* the state part of C12: a finished getDoc whose doc.Get ended in a
\* transport error has returned an error if it had no stored record (it
\* never queried the child packages); if it had one and no service call
\* failed, it has returned the record
C12_ServedOrError ==
  \A p \in Procs :
    (pr[p].op = "getDoc" /\ pr[p].pc = "done" /\ pr[p].gerr = "transport") =>
      /\ pr[p].qkey = <<>> => pr[p].ret = "err"
      /\ (pr[p].qkey # <<>> /\ faults = 0) => pr[p].ret = "ok"

\* C12: when doc.Get returns a transport error and loadDoc has found a stored
\* documentation record for the import path, getDoc goes on with that record
\* and returns it instead of the error; it returns the error only when no
\* stored record exists.
C12_StoredRecordOnTransportError ==
  []C12_ServedOrError /\ [][\A p \in Procs : C12_Step(p)]_vars

\* the case of C12 has happened: the fetch failed, the store held a record
\* and getDoc has returned a record
C12_Witness ==
  \E p \in Procs :
    /\ pr[p].op = "getDoc" /\ pr[p].pc = "done"
    /\ pr[p].gerr = "transport" /\ pr[p].ret = "ok"
    /\ dsDoc[pr[p].path] # None

\* the other case of C12: nothing was stored and the error is returned
C12_WitnessError ==
  \E p \in Procs :
    /\ pr[p].op = "getDoc" /\ pr[p].pc = "done"
    /\ pr[p].gerr = "transport" /\ pr[p].ret = "err" /\ pr[p].qkey = <<>>
    /\ dsDoc[pr[p].path] = None /\ faults = 0

(***************************************************************************)
(* C13.  When the resolver fails with an error other than "not found" and  *)
(* "not modified" (here: the network failed, net = FALSE), the steps of    *)
(* getDoc after it leave the Doc and Package entities and every entry of   *)
(* the ephemeral tier unchanged.                                           *)
(***************************************************************************)
\* the step is one of worker p, a getDoc whose doc.Get failed for the network
C13_FailedStep(p) ==
  /\ pr[p].op = "getDoc"
  /\ pr'[p].pc # pr[p].pc
  /\ ~pr[p].net \/ (pr[p].pc = "G_fetch" /\ ~pr'[p].net)

C13_NothingChanges ==
  [][\A p \in Procs : C13_FailedStep(p) => UNCHANGED <<mc, dsDoc, dsPkg>>]_vars

\* C13, as the code has it: such a step leaves the durable tier and the
\* cached documentation alone and writes no tombstone; the one entry it may
\* store is the list of the project's packages that childPackages computed
\* from the index, under the list key of the project of the stored record
\* it serves (pdoc = pdocSaved), and only when a stored record exists
C13_Step(p) ==
  C13_FailedStep(p) =>
    /\ pr'[p].gerr = "transport" \/ pr[p].gerr = "transport"
    /\ UNCHANGED <<dsDoc, dsPkg>>
    /\ \A k \in CacheKeys :
         mc'[k] # mc[k] =>
           /\ pr[p].pdoc # None
           /\ k = ProjKey(Val(pr[p].pdoc).ProjectRoot)
           /\ k = pr[p].qkey
           /\ mc'[k] = Some(ListEntry(p))

C13_OnlyTheProjectList == [][\A p \in Procs : C13_Step(p)]_vars

\* a getDoc that failed for the network has stored the list of its project
C13_Witness ==
  \E p \in Procs :
    /\ pr[p].op = "getDoc" /\ pr[p].pc = "done" /\ pr[p].gerr = "transport"
    /\ pr[p].ret = "ok" /\ pr[p].swrote # "no"
    /\ mc[pr[p].qkey] # None /\ Val(mc[pr[p].qkey]).Value = GobEncode(pr[p].pkgs)
    /\ pr[p].pkgs # <<>>

(***************************************************************************)
(* C14.  When the resolution ends in "not found", or the record built has  *)
(* no package name, then after updatePackage has returned neither the Doc  *)
(* entity nor the index entity of the import path remains in the durable   *)
(* tier.  Stated for a request that runs alone and without a failed        *)
(* service call.                                                           *)
(***************************************************************************)
\* updatePackage of worker p has returned from a removal
C14_RemovalReturned(p) ==
  /\ pr[p].op = "getDoc"
  /\ \/ pr[p].pc = "done" /\ pr[p].gerr = "notfound"
     \/ pr[p].pc = "G_cacheSet" /\ pr[p].pkg = None
  /\ faults = 0
  /\ \A q \in Procs \ {p} : pr[q].pc = "idle"

C14_RemovedFromIndex ==
  \A p \in Procs :
    C14_RemovalReturned(p) =>
      /\ dsDoc[pr[p].path] = None
      /\ dsPkg[pr[p].path] = None
      /\ dsPkg[<<"/">> \o pr[p].path] = None

(***************************************************************************)
(* C15.  Every Doc blob in the durable tier has a serialized size not      *)
(* above the limit of 800,000 bytes: a record whose serialization exceeds  *)
(* it is stored truncated, and the truncated record encodes below it.      *)
(***************************************************************************)
C15_StoredSizeBound ==
  \A path \in AllPaths :
    dsDoc[path] # None => GobLen(GobDecode(Val(dsDoc[path]).Gob)) <= MaxDocSize

(***************************************************************************)
(* C16.  Each key of the ephemeral tier follows the lifecycle Missing ->   *)
(* Present -> Tombstoned -> Missing: it becomes Present only from Missing, *)
(* becomes Tombstoned only by invalidation, and leaves Tombstoned only by  *)
(* the expiry of the tombstone.                                            *)
(***************************************************************************)
KeyState(entry) ==
  IF entry = None THEN "Missing"
  ELSE IF IsTombstone(Val(entry).Value) THEN "Tombstoned"
  ELSE "Present"

\* the step is one of a worker at position pc whose call names key k
C16_By(pc, k) ==
  \E p \in Procs :
    /\ pr[p].pc = pc /\ pr'[p].pc # pc
    /\ CASE pc = "U_clear" -> k \in ClearKeys(pr[p].pdoc)
         [] pc \in {"Q_cas", "Q_add"} -> k = pr[p].qkey
         [] OTHER -> k = DocKey(pr[p].path)

C16_AsClaimed(k) ==
  LET a == KeyState(mc[k])
      b == KeyState(mc'[k])
  IN /\ (a # "Present" /\ b = "Present") => a = "Missing"
     /\ (a # "Tombstoned" /\ b = "Tombstoned") => C16_By("U_clear", k)
     /\ (a = "Tombstoned" /\ b # "Tombstoned") => (b = "Missing" /\ Expire(k))

C16_LifecycleAsClaimed == [][\A k \in CacheKeys : C16_AsClaimed(k)]_vars

\* C16, as the code has it: a key becomes Present from Missing by
\* memcache.Add or cacheSet and from Tombstoned by the CompareAndSwap of a
\* reader that holds the item of that tombstone; it becomes Tombstoned only
\* by cacheClear, with the two-minute expiration; a tombstone goes Missing
\* only by expiry; a Present entry is replaced only by cacheSet and goes
\* Missing within its hour only by the Delete of packageReloadHandler
C16_Transition(k) ==
  LET a == KeyState(mc[k])
      b == KeyState(mc'[k])
      held == \E p \in Procs : /\ pr[p].pc = "Q_cas" /\ pr[p].qkey = k
                                /\ pr[p].item = "held" /\ pr[p].current
                                /\ pr'[p].swrote = "cas"
  IN /\ (a = "Missing" /\ b = "Present") =>
          C16_By("Q_add", k) \/ C16_By("G_cacheSet", k)
     /\ (a = "Tombstoned" /\ b = "Present") => (C16_By("Q_cas", k) /\ held)
     /\ (b = "Tombstoned" /\ mc'[k] # mc[k]) =>
          /\ C16_By("U_clear", k)
          /\ Val(mc'[k]).Expiration = TombstoneExpiration
     /\ (a = "Tombstoned" /\ b = "Missing") => Expire(k)
     /\ (a = "Present" /\ b = "Missing") => C16_By("R_delete", k)
     /\ (a = "Present" /\ b = "Present" /\ Val(mc'[k]).Value # Val(mc[k]).Value) =>
          C16_By("G_cacheSet", k)

C16_Lifecycle == [][\A k \in CacheKeys : C16_Transition(k)]_vars

\* a reader's CompareAndSwap has turned a tombstoned key Present while the
\* tombstone written with it is still there under the other list key
C16_Witness ==
  \E p, q \in Procs :
    /\ pr[q].swrote = "cas" /\ pr[q].item = "held"
    /\ pr[q].qkey \in pr[p].clrKeys
    /\ KeyState(mc[pr[q].qkey]) = "Present"
    /\ \E k \in pr[p].clrKeys : KeyState(mc[k]) = "Tombstoned"

(***************************************************************************)
(* C17.  For an import path that is not a standard-library path and fails  *)
(* ValidRemotePath, Get returns "not found" and makes no request: it calls *)
(* no adapter and no discovery.                                            *)
(***************************************************************************)
C17_InvalidPathNoRequest ==
  (/\ rv.op = "Get"
   /\ rv.importPath \notin StandardPackages
   /\ ~ValidRemotePath(rv.importPath)) =>
     /\ rv.out.err = "notfound"
     /\ rv.out.pdoc = None
     /\ rv.out.calls = <<>>

\* Get was called with an invalid path that the pattern of a static service
\* matches, on a network where that service would have answered
C17_Witness ==
  /\ rv.op = "Get"
  /\ rv.importPath \notin StandardPackages
  /\ ~ValidRemotePath(rv.importPath)
  /\ FindStringSubmatch("github", rv.importPath) # None
  /\ rv.web.netOK /\ rv.web.inTree /\ rv.etag = <<>>
  /\ rv.out.err = "notfound"

(***************************************************************************)
(* C18.  getStatic tries the services in the order of the registry: the    *)
(* first service whose prefix the import path has decides.  When its       *)
(* pattern does not match, the result is "not found" and nothing is        *)
(* called: no later service and, in Get, no discovery and no proxy.        *)
(***************************************************************************)
C18_Prefixed(importPath) ==
  {i \in 1..Len(services) : HasPrefix(importPath, services[i].prefix)}

C18_Decides(importPath, i) ==
  /\ i \in C18_Prefixed(importPath)
  /\ \A j \in C18_Prefixed(importPath) : i <= j

C18_FirstPrefixDecides ==
  /\ rv.op = "getStatic" =>
       /\ C18_Prefixed(rv.importPath) = {} =>
            (rv.out.err = "nomatch" /\ rv.out.calls = <<>>)
       /\ \A i \in 1..Len(services) :
            C18_Decides(rv.importPath, i) =>
              IF FindStringSubmatch(services[i].name, rv.importPath) = None
                THEN rv.out.err = "notfound" /\ rv.out.calls = <<>>
                ELSE rv.out.calls = <<<<services[i].name, rv.importPath, rv.etag>>>>
  /\ (/\ rv.op = "Get"
      /\ rv.importPath \notin StandardPackages
      /\ \E i \in 1..Len(services) :
           /\ C18_Decides(rv.importPath, i)
           /\ FindStringSubmatch(services[i].name, rv.importPath) = None) =>
       (rv.out.err = "notfound" /\ rv.out.calls = <<>>)

\* Get was called with a valid path that has the prefix of a service and
\* not its shape, on a network whose servers answer
C18_Witness ==
  /\ rv.op = "Get"
  /\ ValidRemotePath(rv.importPath)
  /\ \E i \in 1..Len(services) :
       /\ C18_Decides(rv.importPath, i)
       /\ FindStringSubmatch(services[i].name, rv.importPath) = None
  /\ rv.web.pages # <<>> /\ rv.web.netOK
  /\ rv.out.err = "notfound"

(***************************************************************************)
(* C19.  The fallback chain is ordered.  Get turns to dynamic discovery    *)
(* only when the import path has the prefix of no static service;          *)
(* getDynamic hands the path rewritten by the repository URL to getStatic; *)
(* the proxy is called only when that path has the prefix of no static     *)
(* service either, and every other error of the second getStatic is        *)
(* returned without a call of the proxy.                                   *)
(***************************************************************************)
C19_IsDiscovery(call) == call[1] \in {"https", "http"}

C19_IsProxy(call) == call[1] = "proxy"

C19_Has(calls, Is(_)) == \E k \in 1..Len(calls) : Is(calls[k])

\* getDynamic gets as far as the second getStatic
C19_Reattempts(meta, root) ==
  /\ meta.err = "nil"
  /\ meta.projectRoot # rv.importPath =>
       (root.err = "nil" /\ root.projectRoot = meta.projectRoot)
  /\ IndexOf(meta.repoRoot, <<":","/","/">>) >= 0

C19_Chain(meta, root, importPath2, st) ==
  IF ~C19_Reattempts(meta, root)
    THEN \A k \in 1..Len(rv.out.calls) : C19_IsDiscovery(rv.out.calls[k])
    ELSE /\ \A k \in 1..Len(rv.out.calls) :
              \/ C19_IsDiscovery(rv.out.calls[k])
              \/ C19_IsProxy(rv.out.calls[k])
              \/ rv.out.calls[k][2] = importPath2
         /\ C19_Has(rv.out.calls, C19_IsProxy) <=> C18_Prefixed(importPath2) = {}
         /\ C18_Prefixed(importPath2) # {} =>
              (rv.out.err = st.err /\ rv.out.calls = (meta.calls \o root.calls) \o st.calls)
         /\ C18_Prefixed(importPath2) = {} =>
              (/\ rv.out.calls[Len(rv.out.calls)] = <<"proxy", rv.importPath, rv.etag>>
               /\ \A k \in 1..(Len(rv.out.calls) - 1) : C19_IsDiscovery(rv.out.calls[k]))

C19_OfMeta(meta, root) ==
  C19_Chain(meta, IF meta.projectRoot # rv.importPath THEN root
                  ELSE [root EXCEPT !.calls = <<>>],
            Rewritten(rv.importPath, meta.projectRoot, meta.repoRoot,
                      IndexOf(meta.repoRoot, <<":","/","/">>)),
            getStatic(Rewritten(rv.importPath, meta.projectRoot, meta.repoRoot,
                                IndexOf(meta.repoRoot, <<":","/","/">>)), rv.etag, rv.web))

C19_OfPath(meta) == C19_OfMeta(meta, getMeta(meta.projectRoot, rv.web))

C19_FallbackOrder ==
  /\ (rv.op = "Get" /\ C19_Has(rv.out.calls, C19_IsDiscovery)) =>
       C18_Prefixed(rv.importPath) = {}
  /\ rv.op = "getDynamic" => C19_OfPath(getMeta(rv.importPath, rv.web))

\* the second getStatic found no service and the proxy answered
C19_Witness ==
  /\ rv.op = "getDynamic"
  /\ C19_Has(rv.out.calls, C19_IsProxy)
  /\ rv.out.err = "nil"
  /\ Val(rv.out.pdoc).ImportPath = rv.importPath

\* the second getStatic failed and the proxy was not called
C19_WitnessError ==
  /\ rv.op = "getDynamic"
  /\ rv.web.netOK /\ rv.web.inTree
  /\ rv.out.err = "notfound"
  /\ Len(rv.out.calls) = 2
  /\ C19_Reattempts(getMeta(rv.importPath, rv.web), getMeta(RootDyn, rv.web))

\* Get reached an adapter through discovery
C19_WitnessGet ==
  /\ rv.op = "Get"
  /\ C19_Has(rv.out.calls, C19_IsDiscovery)
  /\ rv.out.err = "nil"
  /\ rv.out.calls[Len(rv.out.calls)][1] = "github"

(***************************************************************************)
(* C20.  getMeta succeeds only when the part of the response it reads (up  *)
(* to the end of the head or the start of the body) holds exactly one      *)
(* go-import declaration whose prefix matches the import path; with none   *)
(* or more than one the result is "not found".                             *)
(***************************************************************************)
\* the response getMeta reads: https when it answers 200, else plain http
C20_Response ==
  LET uri == (IF Index(rv.importPath, "/") < 0 THEN rv.importPath \o <<"/">>
              ELSE rv.importPath) \o <<"?","g","o","-","g","e","t","=","1">>
  IN IF /\ <<"https", uri>> \in DOMAIN rv.web.pages
        /\ rv.web.pages[<<"https", uri>>].status = 200
       THEN Some(rv.web.pages[<<"https", uri>>])
     ELSE ClientGet(rv.web, "http", uri)

\* the positions of the matching declarations in what is read of tokens
C20_Matching(tokens) ==
  {i \in 1..Len(tokens) :
     /\ \A j \in 1..i :
          /\ ~(tokens[j].kind = "end" /\ ToLower(tokens[j].Local) = <<"h","e","a","d">>)
          /\ ~(tokens[j].kind = "start" /\ ToLower(tokens[j].Local) = <<"b","o","d","y">>)
     /\ tokens[i].kind = "start"
     /\ ToLower(tokens[i].Local) = <<"m","e","t","a">>
     /\ \E a \in 1..Len(tokens[i].Attr) :
          /\ ToLower(tokens[i].Attr[a].Local) = <<"n","a","m","e">>
          /\ \A b \in 1..(a - 1) : ToLower(tokens[i].Attr[b].Local) # <<"n","a","m","e">>
          /\ tokens[i].Attr[a].Value = <<"g","o","-","i","m","p","o","r","t">>
     /\ Declares(Fields(attrValue(tokens[i].Attr, <<"c","o","n","t","e","n","t">>)), rv.importPath)}

C20_OfMatching(tokens, matching) ==
  /\ rv.out.err = "nil" <=> Cardinality(matching) = 1
  /\ Cardinality(matching) # 1 => rv.out.err = "notfound"
  /\ \A i \in matching :
       Cardinality(matching) = 1 =>
         /\ rv.out.projectRoot = Fields(attrValue(tokens[i].Attr, <<"c","o","n","t","e","n","t">>))[1]
         /\ rv.out.repoRoot = Fields(attrValue(tokens[i].Attr, <<"c","o","n","t","e","n","t">>))[3]

C20_OfResponse(resp) ==
  IF resp = None THEN rv.out.err = "transport"
  ELSE C20_OfMatching(Val(resp).tokens, C20_Matching(Val(resp).tokens))

C20_ExactlyOneDeclaration == rv.op = "getMeta" => C20_OfResponse(C20_Response)

\* getMeta succeeded on a page that holds other declarations besides the
\* matching one
C20_Witness ==
  /\ rv.op = "getMeta"
  /\ rv.out.err = "nil"
  /\ C20_Response # None
  /\ Cardinality(C20_Matching(Val(C20_Response).tokens)) = 1
  /\ \E i \in 1..Len(Val(C20_Response).tokens) :
       /\ i \notin C20_Matching(Val(C20_Response).tokens)
       /\ attrValue(Val(C20_Response).tokens[i].Attr, <<"n","a","m","e">>) = <<"g","o","-","i","m","p","o","r","t">>

\* getMeta found two matching declarations
C20_WitnessTwo ==
  /\ rv.op = "getMeta"
  /\ C20_Response # None
  /\ Cardinality(C20_Matching(Val(C20_Response).tokens)) = 2
  /\ rv.out.err = "notfound"

(***************************************************************************)
(* C21.  When the project root getDynamic discovers for an import path is  *)
(* not the import path, the project root is discovered again on its own    *)
(* page; getDynamic succeeds only if that second discovery names the same  *)
(* project root, and when it names another the result is "not found" and   *)
(* no adapter has been called.                                             *)
(***************************************************************************)
C21_OfRoot(meta, root) ==
  /\ Len(rv.out.calls) >= Len(meta.calls) + Len(root.calls)
  /\ SubSeq(rv.out.calls, 1, Len(meta.calls) + Len(root.calls)) = meta.calls \o root.calls
  /\ \E k \in 1..Len(root.calls) :
       /\ C19_IsDiscovery(root.calls[k])
       /\ HasPrefix(root.calls[k][2], meta.projectRoot)
  /\ rv.out.err = "nil" => (root.err = "nil" /\ root.projectRoot = meta.projectRoot)
  /\ (root.err = "nil" /\ root.projectRoot # meta.projectRoot) =>
       /\ rv.out.err = "notfound"
       /\ rv.out.pdoc = None
       /\ \A k \in 1..Len(rv.out.calls) : C19_IsDiscovery(rv.out.calls[k])

C21_OfMeta(meta) ==
  (meta.err = "nil" /\ meta.projectRoot # rv.importPath) =>
    C21_OfRoot(meta, getMeta(meta.projectRoot, rv.web))

C21_RootMustAgree == rv.op = "getDynamic" => C21_OfMeta(getMeta(rv.importPath, rv.web))

\* the page of the project root names another project root
C21_Witness ==
  /\ rv.op = "getDynamic"
  /\ rv.importPath = PathDyn
  /\ getMeta(PathDyn, rv.web).err = "nil"
  /\ getMeta(PathDyn, rv.web).projectRoot = RootDyn
  /\ getMeta(RootDyn, rv.web).err = "nil"
  /\ getMeta(RootDyn, rv.web).projectRoot # RootDyn
  /\ rv.out.err = "notfound"
  /\ Len(rv.out.calls) = 2

\* the page of the project root agrees and the adapter answered
C21_WitnessAgree ==
  /\ rv.op = "getDynamic"
  /\ rv.importPath = PathDyn
  /\ getMeta(RootDyn, rv.web).err = "nil"
  /\ getMeta(RootDyn, rv.web).projectRoot = RootDyn
  /\ rv.out.err = "nil"
  /\ Val(rv.out.pdoc).ProjectRoot = RootDyn

(***************************************************************************)
(* C22.  The ETag of every record Get returns begins with the marker of    *)
(* the format version.  The adapter Get calls receives the saved ETag      *)
(* without the marker, and the empty ETag when the saved one does not      *)
(* begin with the current marker; so when the ETag of a returned record is *)
(* passed to the next Get, the adapter receives the ETag it had put into   *)
(* that record.                                                            *)
(***************************************************************************)
\* every adapter called in calls received etag
C22_AdaptersReceive(calls, etag) ==
  \A k \in 1..Len(calls) : ~C19_IsDiscovery(calls[k]) => calls[k][3] = etag

\* the record the adapter handed to the Get that has returned
C22_OfAdapter(adapted) ==
  /\ rv'.etag = versionPrefix \o Val(adapted.pdoc).Etag
  /\ C22_AdaptersReceive(rv'.out.calls, Val(adapted.pdoc).Etag)
  /\ \E k \in 1..Len(rv'.out.calls) : ~C19_IsDiscovery(rv'.out.calls[k])

C22_Step ==
  /\ (rv'.op \in {"Get", "GetAgain"} /\ rv'.op # rv.op) =>
       /\ rv'.out.err = "nil" =>
            SubSeq(Val(rv'.out.pdoc).Etag, 1, Len(versionPrefix)) = versionPrefix
       /\ C22_AdaptersReceive(rv'.out.calls,
            IF Len(rv'.etag) >= Len(versionPrefix)
               /\ SubSeq(rv'.etag, 1, Len(versionPrefix)) = versionPrefix
              THEN SubSeq(rv'.etag, Len(versionPrefix) + 1, Len(rv'.etag))
              ELSE <<>>)
  /\ (rv'.op = "GetAgain" /\ rv.op = "Get") =>
       C22_OfAdapter(GetSwitch(rv.importPath,
                               IF HasPrefix(rv.etag, versionPrefix)
                                 THEN SubSeq(rv.etag, Len(versionPrefix) + 1, Len(rv.etag))
                                 ELSE <<>>,
                               rv.web))

C22_MarkerRoundTrip == [][C22_Step]_vars

\* the ETag of a returned record came back and the adapter found its source
\* unchanged
C22_Witness ==
  /\ rv.op = "GetAgain"
  /\ rv.out.err = "notmodified"
  /\ Len(rv.out.calls) = 1
  /\ versionPrefix \o rv.out.calls[1][3] = rv.etag
  /\ rv.out.calls[1][3] # <<>>

\* an adapter was called with a saved ETag that carries another marker
C22_WitnessOther ==
  /\ rv.op = "Get"
  /\ rv.etag # <<>>
  /\ ~HasPrefix(rv.etag, versionPrefix)
  /\ HasSuffix(rv.etag, RevEtag(rv.web.rev))
  /\ rv.out.err = "nil"
  /\ \E k \in 1..Len(rv.out.calls) : rv.out.calls[k][1] = "github" /\ rv.out.calls[k][3] = <<>>

(***************************************************************************)
(* C23.  fetchFiles returns nil only when every task has reported nil,     *)
(* having stored the body of its file in the data field; otherwise it      *)
(* returns the first error it receives from the channel, in the step in    *)
(* which it receives it and whatever the other tasks are doing.  It does   *)
(* not return before all tasks have reported or an error has arrived.      *)
(***************************************************************************)
C23_Returned ==
  (ff.op = "fetchFiles" /\ ff.main = "returned") =>
    IF ff.ret = <<"nil">>
      THEN \A i \in 1..ff.n :
             ff.pc[i] = "done" /\ ff.err[i] = <<"nil">> /\ ff.data[i] = Some(Body)
      ELSE \E i \in 1..ff.n :
             /\ ff.pc[i] = "done"
             /\ ff.err[i] = ff.ret
             /\ \A j \in 1..ff.n : (j # i /\ ff.pc[j] = "done") => ff.err[j] = <<"nil">>

\* task i hands an error to fetchFiles in this step
C23_ErrorArrives(i) ==
  /\ ff.pc[i] = "send"
  /\ ff'.pc[i] = "done"
  /\ ff.err[i] # <<"nil">>

C23_Step ==
  /\ (ff.main = "recv" /\ ff'.main = "returned") =>
       \/ (ff'.ret = <<"nil">> /\ \A i \in 1..ff.n : ff.pc[i] = "done")
       \/ \E i \in 1..ff.n : C23_ErrorArrives(i) /\ ff'.ret = ff.err[i]
  /\ (\E i \in 1..ff.n : C23_ErrorArrives(i)) => ff'.main = "returned"
  /\ ff.main = "returned" => (ff'.main = "returned" /\ ff'.ret = ff.ret)

C23_FirstErrorOrAll == []C23_Returned /\ [][C23_Step]_vars

\* fetchFiles returned an error while another task had not reported
C23_Witness ==
  /\ ff.op = "fetchFiles"
  /\ ff.main = "returned"
  /\ ff.ret # <<"nil">>
  /\ \E i, j \in 1..ff.n :
       /\ ff.pc[i] = "done" /\ ff.err[i] = <<"nil">>
       /\ ff.pc[j] = "start"

\* fetchFiles returned nil for three files
C23_WitnessAll ==
  /\ ff.op = "fetchFiles"
  /\ ff.n = MaxFiles
  /\ ff.main = "returned"
  /\ ff.ret = <<"nil">>

(***************************************************************************)
(* C24.  After fetchFiles has returned an error, every task it started     *)
(* terminates: none stays at its send on the completion channel forever.   *)
(***************************************************************************)
C24_SiblingsTerminate ==
  (ff.op = "fetchFiles" /\ ff.main = "returned" /\ ff.ret # <<"nil">>)
    ~> (\A i \in 1..ff.n : ff.pc[i] = "done")

(***************************************************************************)
(* C26.  The GET helpers turn every outcome of a request into exactly one  *)
(* of four results: "not found" for status 404; for the conditional GET    *)
(* "not modified" without a body for status 304, and for status 200 the    *)
(* body with the ETag of the server without its quotes; a GetError that    *)
(* carries the host for every other status and for a failed connection.    *)
(***************************************************************************)
\* err is a GetError that carries the host the helper was called for
C26_Transport(err) == Len(err) = 3 /\ err[1] = "GetError" /\ err[2] = "api"

\* the connection failed before or while the response was read
C26_ConnectionFailed(resp) == resp = None \/ (Val(resp).status = 200 /\ ~Val(resp).readOK)

C26_OfHttpGet(resp, out) ==
  IF resp = None THEN C26_Transport(out.err)
  ELSE CASE Val(resp).status = 200 -> out.err = <<"nil">> /\ out.body # None
         [] Val(resp).status = 404 -> out.err = <<"notfound">>
         [] OTHER -> C26_Transport(out.err)

C26_OfNoneMatch(resp, out) ==
  IF C26_ConnectionFailed(resp) THEN C26_Transport(out.err)
  ELSE CASE Val(resp).status = 200 ->
              /\ out.err = <<"nil">>
              /\ out.p = Some(Body)
              /\ <<"\"">> \o out.etag \o <<"\"">> = Val(resp).Etag
                   \/ (out.etag = <<>> /\ (Val(resp).Etag = <<>> \/ Head(Val(resp).Etag) # "\""
                                           \/ Len(Val(resp).Etag) < 2))
         [] Val(resp).status = 404 -> out.err = <<"notfound">>
         [] Val(resp).status = 304 -> out.err = <<"notmodified">> /\ out.p = None
         [] OTHER -> C26_Transport(out.err)

C26_EveryOutcomeClassified ==
  /\ ff.op = "httpGet" => C26_OfHttpGet(ff.resp, Val(ff.out))
  /\ ff.op = "httpGetBytesNoneMatch" => C26_OfNoneMatch(ff.resp, Val(ff.out))

(***************************************************************************)
(* C25.  When the GitHub, Bitbucket, Launchpad or Gitorious adapter has    *)
(* got the manifest of the repository and its ETag is the saved ETag, the  *)
(* adapter returns "not modified" and has neither called fetchFiles, nor   *)
(* read the body of a file, nor called the documentation builder.          *)
(***************************************************************************)
C25_Adapters == {"github", "bitbucket", "launchpad", "gitorious"}

\* the adapter gets its manifest: the requests succeed and, for the listing
\* of a directory, the directory is there
C25_ManifestFetched(name) == rv.web.netOK /\ (name = "bitbucket" => rv.web.inTree)

C25_OfAdapter(name) ==
  (name \in C25_Adapters /\ C25_ManifestFetched(name) /\ rv.etag = RevEtag(rv.web.rev)) =>
    /\ rv.out.err = "notmodified"
    /\ rv.out.pdoc = None
    /\ \A k \in 1..Len(rv.out.ops) :
         rv.out.ops[k] \notin {"fetchFiles", "readEntries", "buildDoc"}

C25_NotModifiedFetchesNoBody ==
  rv.op = "adapter" => C25_OfAdapter(services[FirstService(rv.importPath, 1)].name)

\* the GitHub adapter found the saved ETag in the list of refs
C25_Witness ==
  /\ rv.op = "adapter"
  /\ services[FirstService(rv.importPath, 1)].name = "github"
  /\ rv.etag # <<>>
  /\ rv.out.err = "notmodified"
  /\ rv.out.ops = <<"refs">>

\* the Launchpad or Gitorious adapter found the saved ETag to be the hash
\* of the archive it had downloaded
C25_WitnessArchive ==
  /\ rv.op = "adapter"
  /\ services[FirstService(rv.importPath, 1)].name \in {"launchpad", "gitorious"}
  /\ rv.out.err = "notmodified"
  /\ rv.out.ops = <<"tarball">>

\* with another saved ETag the adapter goes on to the bodies and the builder
C25_WitnessModified ==
  /\ rv.op = "adapter"
  /\ services[FirstService(rv.importPath, 1)].name = "bitbucket"
  /\ rv.etag # RevEtag(rv.web.rev)
  /\ rv.out.err = "nil"
  /\ rv.out.ops = <<"listing", "fetchFiles", "buildDoc">>

(***************************************************************************)
(* C27.  A command (a record with IsCmd that is neither under the legacy   *)
(* mirror nor of the standard library) is hidden unless its synopsis is    *)
(* not empty and its doc text holds a period that is not its last          *)
(* character.  The index tokens of a visible command are the lowercased    *)
(* project root and the lowercased last segment of the import path; those  *)
(* of a hidden command are the lowercased project root alone: no token is  *)
(* added for the path segment.                                             *)
(***************************************************************************)
\* the record updatePackage was called with is of the kind the command and
\* library rules are about
C27_Remote(pdoc) ==
  /\ rv.op = "updatePackage"
  /\ ~HasPrefix(rv.importPath, LegacyMirrorPrefix)
  /\ pdoc.ProjectRoot # <<>>

\* the doc text holds a period before its last character
C27_PeriodInside(doc) == \E k \in 1..(Len(doc) - 1) : doc[k] = "."

C27_Segment(pdoc) == PathSplitFile(ToLower(pdoc.ImportPath))

C27_HasToken(pkg, token) == \E k \in 1..Len(pkg.IndexTokens) : pkg.IndexTokens[k] = token

C27_Visibility(pdoc, pkg) ==
  /\ pkg.Hide <=> ~(pdoc.Synopsis # <<>> /\ C27_PeriodInside(pdoc.Doc))
  /\ ~pkg.Hide => C27_HasToken(pkg, C27_Segment(pdoc))

\* the claim as it is worded: the tokens of a hidden command do not include
\* the last segment of its path
C27_CommandAsClaimed ==
  (C27_Remote(rv.out.pdoc) /\ rv.out.pdoc.IsCmd) =>
    /\ C27_Visibility(rv.out.pdoc, rv.out.pkg)
    /\ rv.out.pkg.Hide => ~C27_HasToken(rv.out.pkg, C27_Segment(rv.out.pdoc))

C27_CommandVisibility ==
  (C27_Remote(rv.out.pdoc) /\ rv.out.pdoc.IsCmd) =>
    /\ C27_Visibility(rv.out.pdoc, rv.out.pkg)
    /\ ~rv.out.pkg.Hide =>
         rv.out.pkg.IndexTokens = <<ToLower(rv.out.pdoc.ProjectRoot), C27_Segment(rv.out.pdoc)>>
    /\ rv.out.pkg.Hide => rv.out.pkg.IndexTokens = <<ToLower(rv.out.pdoc.ProjectRoot)>>

\* a command whose doc text is one sentence that ends in its period
C27_Witness ==
  /\ C27_Remote(rv.out.pdoc) /\ rv.out.pdoc.IsCmd
  /\ rv.out.pdoc.Synopsis # <<>>
  /\ rv.out.pdoc.Doc = <<"a", ".">>
  /\ rv.out.pkg.Hide
  /\ Len(rv.out.pkg.IndexTokens) = 1

\* the same text with more after the period
C27_WitnessVisible ==
  /\ C27_Remote(rv.out.pdoc) /\ rv.out.pdoc.IsCmd
  /\ rv.out.pdoc.Synopsis # <<>>
  /\ rv.out.pdoc.Doc = <<"a", ".", " ", "b">>
  /\ ~rv.out.pkg.Hide
  /\ rv.out.pkg.IndexTokens[2] = <<"s","u","b">>

\* a hidden command at the root of a domain: its only token is its path
C27_WitnessRoot ==
  /\ C27_Remote(rv.out.pdoc) /\ rv.out.pdoc.IsCmd
  /\ rv.out.pkg.Hide
  /\ rv.out.pkg.IndexTokens = <<C27_Segment(rv.out.pdoc)>>

(***************************************************************************)
(* C28.  A library (a record that is not under the legacy mirror, has a    *)
(* project root and is not a command) is hidden if and only if it exports  *)
(* no constant, function, type or variable.  The index tokens of a visible *)
(* library are the lowercased project root, the lowercased last segment of *)
(* the import path and, only when it differs from that segment, the        *)
(* lowercased package name: three tokens at most.                          *)
(***************************************************************************)
C28_Exports(pdoc) ==
  Len(pdoc.Consts) + Len(pdoc.Funcs) + Len(pdoc.Types) + Len(pdoc.Vars)

C28_NameToken(pdoc) ==
  IF ToLower(pdoc.Name) # C27_Segment(pdoc) THEN <<ToLower(pdoc.Name)>> ELSE <<>>

C28_OfLibrary(pdoc, pkg) ==
  /\ pkg.Hide <=> C28_Exports(pdoc) = 0
  /\ ~pkg.Hide =>
       /\ pkg.IndexTokens =
            <<ToLower(pdoc.ProjectRoot), C27_Segment(pdoc)>> \o C28_NameToken(pdoc)
       /\ Len(pkg.IndexTokens) <= 3

C28_LibraryVisibility ==
  (C27_Remote(rv.out.pdoc) /\ ~rv.out.pdoc.IsCmd) =>
    C28_OfLibrary(rv.out.pdoc, rv.out.pkg)

\* a visible library whose package name is its path segment: two tokens
C28_Witness ==
  /\ C27_Remote(rv.out.pdoc) /\ ~rv.out.pdoc.IsCmd
  /\ C28_Exports(rv.out.pdoc) = 1
  /\ ToLower(rv.out.pdoc.Name) = C27_Segment(rv.out.pdoc)
  /\ ~rv.out.pkg.Hide
  /\ Len(rv.out.pkg.IndexTokens) = 2

\* a visible library with another package name: three tokens
C28_WitnessNamed ==
  /\ C27_Remote(rv.out.pdoc) /\ ~rv.out.pdoc.IsCmd
  /\ ~rv.out.pkg.Hide
  /\ rv.out.pkg.IndexTokens[3] = <<"m","a","i","n">>

\* a library with a synopsis and a doc text but no export is hidden
C28_WitnessHidden ==
  /\ C27_Remote(rv.out.pdoc) /\ ~rv.out.pdoc.IsCmd
  /\ rv.out.pdoc.Synopsis # <<>> /\ C27_PeriodInside(rv.out.pdoc.Doc)
  /\ C28_Exports(rv.out.pdoc) = 0
  /\ rv.out.pkg.Hide

(***************************************************************************)
(* C29.  The visibility rules are tried in order and the first that        *)
(* matches decides.  A record whose path is under the legacy mirror        *)
(* code.google.com/p/go/ is hidden whatever its exports, synopsis and      *)
(* IsCmd flag, and no token is added for its name or path.  Otherwise a    *)
(* record without project root (the standard library) is hidden and its    *)
(* one index token is its lowercased package name.  The command and        *)
(* library rules decide only for records that matched neither.             *)
(***************************************************************************)
C29_Legacy == <<"c","o","d","e",".","g","o","o","g","l","e",".","c","o","m","/","p","/","g","o","/">>

C29_UnderLegacy(path) ==
  Len(path) >= Len(C29_Legacy) /\ SubSeq(path, 1, Len(C29_Legacy)) = C29_Legacy

C29_RootTokens(pdoc) ==
  IF pdoc.ProjectRoot # <<>> THEN <<ToLower(pdoc.ProjectRoot)>> ELSE <<>>

C29_OfRecord(path, pdoc, pkg) ==
  /\ C29_UnderLegacy(path) =>
       pkg.Hide /\ pkg.IndexTokens = C29_RootTokens(pdoc)
  /\ (~C29_UnderLegacy(path) /\ pdoc.ProjectRoot = <<>>) =>
       pkg.Hide /\ pkg.IndexTokens = <<ToLower(pdoc.Name)>>
  /\ ~pkg.Hide => (~C29_UnderLegacy(path) /\ pdoc.ProjectRoot # <<>>)

C29_FirstMatchWins ==
  rv.op = "updatePackage" => C29_OfRecord(rv.importPath, rv.out.pdoc, rv.out.pkg)

\* a library with exports under the legacy mirror: the library rule would
\* show it
C29_Witness ==
  /\ rv.op = "updatePackage" /\ C29_UnderLegacy(rv.importPath)
  /\ rv.out.pdoc.ProjectRoot # <<>> /\ ~rv.out.pdoc.IsCmd
  /\ C28_Exports(rv.out.pdoc) = 4
  /\ rv.out.pkg.Hide
  /\ Len(rv.out.pkg.IndexTokens) = 1

\* a record under the legacy mirror without project root: the legacy rule
\* decides before the standard library rule, no name token
C29_WitnessLegacyFirst ==
  /\ rv.op = "updatePackage" /\ C29_UnderLegacy(rv.importPath)
  /\ rv.out.pdoc.ProjectRoot = <<>>
  /\ rv.out.pkg.Hide
  /\ rv.out.pkg.IndexTokens = <<>>

\* a documented command of the standard library with exports
C29_WitnessStandard ==
  /\ rv.op = "updatePackage" /\ rv.importPath = <<"f","m","t">>
  /\ rv.out.pdoc.IsCmd /\ rv.out.pdoc.Synopsis # <<>>
  /\ C27_PeriodInside(rv.out.pdoc.Doc) /\ C28_Exports(rv.out.pdoc) > 0
  /\ rv.out.pkg.Hide
  /\ rv.out.pkg.IndexTokens = <<<<"f","m","t">>>>

(***************************************************************************)
(* C30.  When the Doc entity loadDoc reads carries a version tag other     *)
(* than doc.PackageVersion and the read itself succeeds, loadDoc returns   *)
(* what it returns for an absent entity: no record, the empty ETag and no  *)
(* error.  getDoc goes on to doc.Get with no saved record and the empty    *)
(* saved ETag.                                                             *)
(***************************************************************************)
\* the entity stored for the path was written under another format version
C30_Outdated(path) ==
  dsDoc[path] # None /\ Val(dsDoc[path]).Version # PackageVersion

\* worker p takes the loadDoc step of getDoc and the datastore answers
C30_Loads(p) ==
  pr[p].pc = "G_loadDoc" /\ pr'[p] # pr[p] /\ faults' = faults

\* getDoc after loadDoc has found no entity
C30_AsAbsent(r) ==
  [r EXCEPT !.pc = "G_fetch", !.saved = None, !.etag = <<>>,
            !.dread = @ \cup {<<"Doc", r.path>>}]

C30_Step ==
  \A p \in Procs :
    (C30_Loads(p) /\ C30_Outdated(pr[p].path)) =>
      /\ pr'[p] = C30_AsAbsent(pr[p])
      /\ pr'[p].ret = "none"

C30_VersionMismatchIsMiss == [][C30_Step]_vars

\* getDoc is about to call doc.Get with the empty ETag while the store
\* holds the outdated record, which has an ETag
C30_Witness ==
  \E p \in Procs :
    /\ pr[p].pc = "G_fetch"
    /\ C30_Outdated(pr[p].path)
    /\ GobDecode(Val(dsDoc[pr[p].path]).Gob).Etag # <<>>
    /\ pr[p].saved = None /\ pr[p].etag = <<>>

\* the rebuild has replaced the outdated record
C30_WitnessRebuilt ==
  \E p \in Procs :
    /\ pr[p].pc = "G_cacheSet"
    /\ pr[p].saved = None /\ pr[p].etag = <<>> /\ pr[p].gerr = "nil"
    /\ dsDoc[pr[p].path] # None /\ ~C30_Outdated(pr[p].path)

(***************************************************************************)
(* C37.  doc.Get reports "not modified" only to a getDoc that holds a      *)
(* saved record: when loadDoc found no record (the saved ETag is empty),   *)
(* the step that calls doc.Get does not end in ErrPackageNotModified, and  *)
(* getDoc does not reach childPackages with a nil record, where it         *)
(* dereferences it.                                                        *)
(***************************************************************************)
\* worker p takes step 3 of getDoc without a saved record
C37_FetchesUnsaved(p) ==
  /\ pr[p].pc = "G_fetch" /\ pr'[p].pc # "G_fetch"
  /\ pr[p].saved = None

C37_Step ==
  \A p \in Procs :
    C37_FetchesUnsaved(p) =>
      /\ pr[p].etag = <<>>
      /\ pr'[p].gerr # "notmodified"
      /\ pr'[p].ret # "panic"

C37_NotModifiedNeedsSaved == [][C37_Step]_vars

(***************************************************************************)
(* C33.  getDoc asks the cache first.  When the cache holds a record for   *)
(* the path (an entry that is not a tombstone), getDoc goes on to the      *)
(* child packages with that record: it does not read the Doc entity, does  *)
(* not call doc.Get, and none of its steps writes the datastore or the     *)
(* cache entry of a record.  loadDoc and doc.Get run only after a cacheGet *)
(* that found no entry or a tombstone.                                     *)
(***************************************************************************)
\* the step is one of worker p
C33_Acts(p) == pr'[p].pc # pr[p].pc

C33_DocCacheUnchanged == \A path \in AllPaths : mc'[DocKey(path)] = mc[DocKey(path)]

\* a getDoc that was served from the cache
C33_OfHit(r) ==
  /\ r.pc \in {"Q_get", "Q_query", "Q_cas", "Q_add", "done"}
  /\ r.gerr = "none" /\ r.rev = "none"
  /\ r.dread \cap {<<"Doc", path>> : path \in AllPaths} = {}
  /\ r.docWrite = "none" /\ r.pkgWrite = "none" /\ r.clrKeys = {}

C33_Step ==
  \A p \in Procs :
    /\ (C33_Acts(p) /\ pr'[p].hit) =>
         /\ dsDoc' = dsDoc /\ dsPkg' = dsPkg
         /\ C33_DocCacheUnchanged
    \* the hit: the entry is a stored record, which getDoc takes as it is
    /\ (pr'[p].hit /\ ~pr[p].hit) =>
         /\ pr[p].pc = "G_cacheGet"
         /\ mc[DocKey(pr[p].path)] # None
         /\ ~IsTombstone(Val(mc[DocKey(pr[p].path)]).Value)
         /\ pr'[p].pdoc = Some(GobDecode(Val(mc[DocKey(pr[p].path)]).Value))
    \* the miss: loadDoc is entered from cacheGet only
    /\ (C33_Acts(p) /\ pr'[p].pc = "G_loadDoc") =>
         /\ pr[p].pc = "G_cacheGet"
         /\ \/ mc[DocKey(pr[p].path)] = None
            \/ IsTombstone(Val(mc[DocKey(pr[p].path)]).Value)
    /\ (C33_Acts(p) /\ pr'[p].pc = "G_fetch") => pr[p].pc = "G_loadDoc"

C33_Hit == \A p \in Procs : pr[p].hit => C33_OfHit(pr[p])

C33_CacheFirst == []C33_Hit /\ [][C33_Step]_vars

\* a getDoc served from the cache while the store holds no Doc entity for
\* the path any more
C33_Witness ==
  \E p \in Procs :
    /\ pr[p].hit /\ pr[p].pc = "Q_get"
    /\ pr[p].pdoc # None
    /\ dsDoc[pr[p].path] = None

\* a getDoc that found no entry in the cache and has read the Doc entity
C33_WitnessMiss ==
  \E p \in Procs :
    /\ pr[p].pc = "G_fetch" /\ ~pr[p].hit
    /\ mc[DocKey(pr[p].path)] = None
    /\ <<"Doc", pr[p].path>> \in pr[p].dread

(***************************************************************************)
(* C38.  After every updatePackage call of a sequence of calls for one     *)
(* import path, all of whose datastore operations succeed, the stored      *)
(* index entity is the projection of the record the call was given, in     *)
(* every field that is persisted, PackageName included (and there is no    *)
(* entity when the call was given no record).                              *)
(***************************************************************************)
C38_Stored == dsPkg[KeyName(rv.importPath, rv.out.pdoc)]

C38_StoredAgrees ==
  rv.op = "updateStored" => C38_Stored = rv.out.pkg

(***************************************************************************)
(* C39.  When updatePackage has put or deleted the index entity of a       *)
(* package, its cacheClear leaves a tombstone under the key of the global  *)
(* package list and under the key of the list of the package's project,    *)
(* also when the entity was deleted because the resolver found no package  *)
(* (pdoc is nil).                                                          *)
(***************************************************************************)
\* worker p, having written the index entity of its path, takes the
\* cacheClear step of updatePackage and the cache answers
C39_Clears(p) ==
  /\ pr[p].pc = "U_clear" /\ pr'[p].pc # "U_clear"
  /\ pr[p].pkgWrite \in {"put", "delete"}
  /\ faults' = faults

C39_Tombstoned(k) == mc'[k] # None /\ IsTombstone(Val(mc'[k]).Value)

C39_Step ==
  \A p \in Procs :
    (C39_Clears(p) /\ pr[p].path \in Paths) =>
      /\ C39_Tombstoned(packageListKey)
      /\ C39_Tombstoned(ProjKey(RootR))

C39_BothListsTombstoned == [][C39_Step]_vars

(***************************************************************************)
(* C40.  The repository getDynamic rewrites the import path to is the one  *)
(* the page of the project root declares: every adapter it calls is called *)
(* with the import path rewritten by the repo root of that page.  When the *)
(* page of the import path and the page of the project root declare the    *)
(* same project root and different repo roots, no adapter is called for    *)
(* the repository that only the page of the import path names.             *)
(***************************************************************************)
\* the calls of adapters of static services among the calls of a result
C40_AdapterCalls(res) ==
  {k \in 1..Len(res.calls) :
     Len(res.calls[k]) = 3 /\ res.calls[k][1] \notin {"proxy", "standard"}}

\* the import path as the declaration of a discovery rewrites it
C40_RewrittenBy(importPath, meta) ==
  Rewritten(importPath, meta.projectRoot, meta.repoRoot,
            IndexOf(meta.repoRoot, <<":", "/", "/">>))

C40_OfRoot(importPath, res, meta, root) ==
  \A k \in C40_AdapterCalls(res) :
    /\ root.err = "nil"
    /\ root.projectRoot = meta.projectRoot
    /\ res.calls[k][2] = C40_RewrittenBy(importPath, [meta EXCEPT !.repoRoot = root.repoRoot])

C40_OfMeta(importPath, res, meta) ==
  C40_AdapterCalls(res) # {} =>
    /\ meta.err = "nil"
    /\ C40_OfRoot(importPath, res, meta, getMeta(meta.projectRoot, rv.web))

C40_RepoOfProjectRoot ==
  rv.op = "getDynamic" =>
    C40_OfMeta(rv.importPath, rv.out, getMeta(rv.importPath, rv.web))

(***************************************************************************)
(* C31.  ValidRemotePath rejects every import path in which a segment      *)
(* after the first is empty, begins with "." or "_", or is "testdata",     *)
(* whatever the other segments are.                                        *)
(***************************************************************************)
C31_Ignored(segment) ==
  \/ segment = <<>>
  \/ segment # <<>> /\ segment[1] \in {".", "_"}
  \/ segment = <<"t","e","s","t","d","a","t","a">>

C31_HasIgnored(importPath) ==
  \E i \in 2..Len(Split(importPath, "/")) : C31_Ignored(Split(importPath, "/")[i])

C31_IgnoredSegmentRejected ==
  (rv.op = "ValidRemotePath" /\ C31_HasIgnored(rv.importPath)) => ~rv.out.valid

\* the ignored segment is not the last one, the host and the other segments
\* are acceptable
C31_Witness ==
  /\ rv.op = "ValidRemotePath"
  /\ rv.importPath = <<"g","i","t","h","u","b",".","c","o","m","/","u","s","e","r","/","r","e","p","o","/","t","e","s","t","d","a","t","a","/","x">>
  /\ ~rv.out.valid

C31_WitnessHidden ==
  /\ rv.op = "ValidRemotePath"
  /\ rv.importPath \in {<<"g","i","t","h","u","b",".","c","o","m","/","u","s","e","r","/","r","e","p","o","/","_","i","g","n","o","r","e","/","x">>,
                         <<"g","i","t","h","u","b",".","c","o","m","/","u","s","e","r","/","r","e","p","o","/",".","i","g","n","o","r","e","/","x">>}
  /\ ~rv.out.valid

\* the same path without the ignored segment is valid, and so is a segment
\* that only begins with testdata or holds "_" and "." further on
C31_WitnessValid ==
  /\ rv.op = "ValidRemotePath"
  /\ rv.importPath \in {<<"g","i","t","h","u","b",".","c","o","m","/","u","s","e","r","/","r","e","p","o","/","x">>,
                         <<"g","i","t","h","u","b",".","c","o","m","/","u","s","e","r","/","r","e","p","o","/","t","e","s","t","d","a","t","a","2">>,
                         <<"g","i","t","h","u","b",".","c","o","m","/","u","s","e","r","/","r","e","p","o","/","a","_","b","/","a",".","b">>}
  /\ rv.out.valid

(***************************************************************************)
(* C32.  ValidRemotePath accepts an import path only if the whole of its   *)
(* first segment is a well-formed host: two or more labels, each a         *)
(* non-empty run of letters, digits and "-", with one dot between          *)
(* neighbours, and no suffix of badTLDs at its end.  It rejects foobar,     *)
(* foo., .bar and favicon.ico and accepts camlistore.org and               *)
(* github.com/user/repo.                                                   *)
(***************************************************************************)
C32_Label(s) ==
  /\ s # <<>>
  /\ \A i \in 1..Len(s) : s[i] \in {"-"} \cup Upper \cup Lower \cup Digit

C32_WellFormedHost(h) ==
  /\ Len(Split(h, ".")) >= 2
  /\ \A i \in 1..Len(Split(h, ".")) : C32_Label(Split(h, ".")[i])
  /\ \A tld \in badTLDs : ~HasSuffix(h, tld)

C32_Examples ==
  /\ rv.importPath \in {<<"f","o","o","b","a","r">>, <<"f","o","o",".">>, <<".","b","a","r">>, <<"f","a","v","i","c","o","n",".","i","c","o">>} => ~rv.out.valid
  /\ rv.importPath \in {<<"c","a","m","l","i","s","t","o","r","e",".","o","r","g">>, <<"g","i","t","h","u","b",".","c","o","m","/","u","s","e","r","/","r","e","p","o">>} => rv.out.valid

C32_WholeHostWellFormed ==
  rv.op = "ValidRemotePath" =>
    /\ rv.out.valid => C32_WellFormedHost(Split(rv.importPath, "/")[1])
    /\ C32_Examples

\* ---- C34 ----

C34_Acts == ff.op = "httpGetBytesCompare"

\* the response was one of status 200 whose body was read to its end
C34_Fetched ==
  /\ ff.resp # None
  /\ Val(ff.resp).status = 200
  /\ Val(ff.resp).readOK

\* the MD5 of the body the server sends, in hexadecimal digits
C34_HashOfBody ==
  <<"8","4","1","a","2","d","6","8","9","a","d","8","6","b","d","1","6","1","1","4","4","7","4","5","3","c","2","2","c","6","f","c">>

\* C34: httpGetBytesCompare returns as ETag the content hash of the body it
\* fetched, and it returns PackageNotModified if and only if the body was
\* fetched and that hash equals the saved ETag; with an empty saved ETag it
\* never returns PackageNotModified.
C34_HashCompared ==
  C34_Acts =>
    /\ rv.out.err = <<"notmodified">> <=> (C34_Fetched /\ rv.etag = C34_HashOfBody)
    /\ C34_Fetched => (rv.out.etag = C34_HashOfBody /\ rv.out.p = Some(Body))
    /\ rv.etag = <<>> => rv.out.err # <<"notmodified">>

\* a body whose hash is the saved ETag: PackageNotModified
C34_Witness ==
  /\ C34_Acts /\ C34_Fetched
  /\ rv.etag = C34_HashOfBody
  /\ rv.out.err = <<"notmodified">>

\* a body fetched with no saved ETag, and one fetched with a saved ETag that
\* is not its hash: the body and its hash are returned
C34_WitnessEmpty ==
  /\ C34_Acts /\ C34_Fetched
  /\ rv.etag = <<>>
  /\ rv.out.err = <<"nil">> /\ rv.out.etag = C34_HashOfBody

C34_WitnessChanged ==
  /\ C34_Acts /\ C34_Fetched
  /\ rv.etag \notin {<<>>, C34_HashOfBody}
  /\ rv.out.err = <<"nil">> /\ rv.out.p = Some(Body)

\* ---- C36 ----

C36_Acts == rv.op = "githubTree"

C36_IsGo1(ref) ==
  ref.Ref \in {<<"r","e","f","s","/","h","e","a","d","s","/","g","o","1">>,
               <<"r","e","f","s","/","t","a","g","s","/","g","o","1">>}

C36_IsMaster(ref) ==
  ref.Ref = <<"r","e","f","s","/","h","e","a","d","s","/","m","a","s","t","e","r">>

\* the positions of the go1 refs and of the master branch in the refs list
C36_Go1s == {i \in 1..Len(rv.out.refs) : C36_IsGo1(rv.out.refs[i])}
C36_Masters == {i \in 1..Len(rv.out.refs) : C36_IsMaster(rv.out.refs[i])}

\* the name of a go1 ref without "refs"
C36_Short(ref) ==
  IF ref.Ref[6] = "h" THEN <<"/","h","e","a","d","s","/","g","o","1">>
  ELSE <<"/","t","a","g","s","/","g","o","1">>

\* C36: when the refs list holds a refs/heads/go1 or refs/tags/go1 ref,
\* getGithubDoc takes the tree go1 and as ETag the SHA of the first such ref
\* followed by its name without "refs", wherever master stands in the list;
\* otherwise it takes the tree master and as ETag the SHA of
\* refs/heads/master when the list holds that ref, the empty string when it
\* does not.
C36_RefSelection ==
  C36_Acts =>
    /\ C36_Go1s # {} =>
         \E i \in C36_Go1s :
           /\ \A j \in C36_Go1s : i <= j
           /\ rv.out.selected.treeName = "go1"
           /\ rv.out.selected.etag = rv.out.refs[i].Sha \o C36_Short(rv.out.refs[i])
    /\ C36_Go1s = {} =>
         /\ rv.out.selected.treeName = "master"
         /\ \A i \in C36_Masters : rv.out.selected.etag = rv.out.refs[i].Sha
         /\ C36_Masters = {} => rv.out.selected.etag = <<>>

\* the claim as worded: without a go1 ref the ETag is the SHA of the
\* refs/heads/master ref of the list
C36_MasterShaOtherwise ==
  (C36_Acts /\ C36_Go1s = {}) =>
    /\ rv.out.selected.treeName = "master"
    /\ \E i \in C36_Masters : rv.out.selected.etag = rv.out.refs[i].Sha

\* master stands before the go1 ref, at another commit: the tree is go1
C36_Witness ==
  /\ C36_Acts
  /\ \E i \in C36_Masters : \E j \in C36_Go1s :
       /\ i < j
       /\ rv.out.refs[i].Sha # rv.out.refs[j].Sha
  /\ rv.out.selected.treeName = "go1"

\* master stands after the go1 ref, at another commit: the tree is go1
C36_WitnessAfter ==
  /\ C36_Acts
  /\ \E i \in C36_Masters : \E j \in C36_Go1s :
       /\ j < i
       /\ rv.out.refs[i].Sha # rv.out.refs[j].Sha
  /\ rv.out.selected.treeName = "go1"

\* no go1 ref, master after another branch: the tree is master, the ETag
\* the commit of master
C36_WitnessMaster ==
  /\ C36_Acts
  /\ C36_Go1s = {}
  /\ \E i \in C36_Masters : i > 1 /\ rv.out.selected.etag = rv.out.refs[i].Sha
  /\ rv.out.selected.treeName = "master"

\* neither a go1 ref nor master: the tree is master and the ETag is empty
C36_WitnessNeither ==
  /\ C36_Acts
  /\ rv.out.refs # <<>>
  /\ C36_Go1s = {} /\ C36_Masters = {}
  /\ rv.out.selected = [etag |-> <<>>, treeName |-> "master"]

\* ---- C35 ----

C35_Acts == rv.op = "docFiles"

\* a file of the repository that is documentation-relevant: a .go file
\* whose name begins with neither '.' nor '_'
C35_Relevant(e) ==
  LET n == PathSplitFile(e.Path)
  IN /\ e.Type = "blob"
     /\ Len(n) >= 3 /\ SubSeq(n, Len(n) - 2, Len(n)) = <<".","g","o">>
     /\ n[1] \notin {".", "_"}

\* the entries of the repository that are documentation-relevant files at
\* or below the directory, and those directly in it
C35_AtOrBelow ==
  {i \in 1..Len(rv.out.tree) :
     /\ C35_Relevant(rv.out.tree[i])
     /\ HasPrefix(rv.out.tree[i].Path, rv.out.dir)}

C35_DirectlyIn ==
  {i \in C35_AtOrBelow :
     rv.out.tree[i].Path = rv.out.dir \o PathSplitFile(rv.out.tree[i].Path)}

\* C35: the GitHub, Launchpad and Gitorious adapters answer PackageNotFound
\* exactly when the repository holds no documentation-relevant file at or
\* below the directory of the import path, and they hand to the builder
\* the documentation-relevant files directly in that directory and no
\* other, each once, in the order of the manifest.
C35_FilesOfDirectory ==
  C35_Acts =>
    /\ rv.out.result.err = "notfound" <=> C35_AtOrBelow = {}
    /\ Len(rv.out.result.files) = Cardinality(C35_DirectlyIn)
    /\ \A k \in 1..Len(rv.out.result.files) :
         \E i \in C35_DirectlyIn :
           /\ Cardinality({j \in C35_DirectlyIn : j <= i}) = k
           /\ rv.out.result.files[k].path = rv.out.tree[i].Path
           /\ rv.out.result.files[k].name = PathSplitFile(rv.out.tree[i].Path)

\* the directory holds a file, a hidden file and a file of a subdirectory:
\* the one file is handed over
C35_Witness ==
  /\ C35_Acts
  /\ rv.out.dir = <<"s","u","b","/">>
  /\ {rv.out.tree[i].Path : i \in 1..Len(rv.out.tree)} =
       {<<"s","u","b","/","b",".","g","o">>, <<"s","u","b","/","_","x",".","g","o">>,
        <<"s","u","b","/","d","/","c",".","g","o">>}
  /\ rv.out.result.err = "nil"
  /\ Len(rv.out.result.files) = 1
  /\ rv.out.result.files[1].name = <<"b",".","g","o">>

\* the only files are in a subdirectory: found, and no file handed over
C35_WitnessBelow ==
  /\ C35_Acts
  /\ rv.out.adapter = "gitorious"
  /\ C35_AtOrBelow # {} /\ C35_DirectlyIn = {}
  /\ rv.out.result = [err |-> "nil", files |-> <<>>]

\* files outside the directory, hidden files and a directory named like a
\* Go file only: PackageNotFound
C35_WitnessNotFound ==
  /\ C35_Acts
  /\ rv.out.adapter = "launchpad"
  /\ rv.out.dir = <<"s","u","b","/">>
  /\ Len(rv.out.tree) = MaxNodes
  /\ \E i \in 1..Len(rv.out.tree) : rv.out.tree[i].Path = <<"s","u","b","x","/","d",".","g","o">>
  /\ \E i \in 1..Len(rv.out.tree) : rv.out.tree[i].Type = "tree"
  /\ rv.out.result.err = "notfound"

=============================================================================
